---- MODULE Spec2Model ----
(***************************************************************************)
(* FacePassIR: the PAM authenticator (pkg/pam/auth.go) driving the V4L2    *)
(* camera (pkg/camera/camera.go), the worker-pool pipeline of the          *)
(* `facepass test` command (cmd/facepass/main.go, cmdTest) and the file    *)
(* gallery store (pkg/storage/storage.go).                                 *)
(*                                                                         *)
(* Twelve specifications share the module:                                  *)
(*   Spec      one caller of Authenticate / AuthenticateQuick              *)
(*   SpecAttempts Spec with every maxAttempts SetMaxAttempts accepts, the   *)
(*             negative ones included                                      *)
(*   SpecFair  Spec with the fairness the Go scheduler and the timer give  *)
(*   SpecConc  two callers sharing one PAMAuthenticator and its camera     *)
(*   SpecPool  the capture goroutine, the workers, the closer and the      *)
(*             collector of cmdTest                                        *)
(*   SpecPoolFair SpecPool with every goroutine scheduled                   *)
(*   SpecStore concurrent FileStorage operations on one user's record      *)
(*   SpecDetect the liveness detector (pkg/liveness/detector.go) applied   *)
(*             to one batch of frames                                      *)
(*   SpecPresence its face-presence check applied to longer batches        *)
(*   SpecMatch the recognizer's FindBestMatch (pkg/recognition) applied to *)
(*             one probe and one gallery                                   *)
(*   SpecCamera a sequence of StartStreaming / StopStreaming / ReadFrame    *)
(*             calls on one V4L2Camera                                     *)
(*   SpecExit  the PAM entry point (cmd/facepass-pam) turning the          *)
(*             AuthResult it was handed into the process's exit status     *)
(***************************************************************************)
EXTENDS Integers, Sequences, FiniteSets, TLC

(***************************************************************************)
(* Bounds of the model                                                     *)
(***************************************************************************)
\* largest configured maxAttempts explored (SetMaxAttempts takes any int)
MaxAttempts == 2
\* frames requested per Authenticate attempt (the code asks for 30)
AuthCount == 5
\* frames requested by AuthenticateQuick (the code asks for 10)
QuickCount == 6
\* largest nearest-neighbour distance explored, in tenths
MaxDist == 5
\* frames read by the capture goroutine of cmdTest (the code reads 30)
captureCount == 7
\* workers of cmdTest (the code starts runtime.NumCPU() of them)
numWorkers == 2
\* FileStorage operations each process performs
MaxOps == 2
\* longest batch of frames handed to the liveness detector
MaxBatch == 5
\* longest batch of frames handed to CheckFacePresence on its own
MaxPresenceBatch == 10
\* longest gallery handed to FindBestMatch
MaxGallery == 3
\* camera calls made in a row on one V4L2Camera
MaxCalls == 3

(***************************************************************************)
(* Program constants                                                       *)
(***************************************************************************)
\* captureFramesForLiveness: fewer frames than this is a capture error
MinFrames == 5
\* recognition tolerance 0.4, in tenths
Tolerance == 4
\* 1.0 in tenths (confidence = 1.0 - distance)
One == 10
\* stand-in for math.MaxFloat64, the empty-gallery sentinel distance
MaxFloat64 == 1000000
\* len(Embedding.Vector): Descriptor is a fixed array of 128 float32
EmbeddingLen == 128
\* cmdTest: every processInterval-th frame read is queued for extraction
processInterval == 3
\* Detect: fewer frames than this are "insufficient frames"
MinDetectFrames == 3
\* Detect3DGeometry: frames and yaw/pitch samples needed
GeometryMinFrames == 5
\* CheckConsistency, DetectMovement, detectBlinkFromEmbeddings: embeddings needed
MinEmbeddings == 3
\* QuickCheck: frames and embeddings needed
QuickMinFrames == 2
\* Detect: weights of the four checks, in tenths
WeightGeometry == 3
WeightConsistency == 3
WeightMovement == 2
WeightPresence == 2
\* QuickCheck: weights of its three checks and its threshold, in tenths
QuickWeightConsistency == 4
QuickWeightMovement == 3
QuickWeightPresence == 3
QuickMinScore == 6
\* CheckFacePresence: share of frames with a face required, in percent
PresencePercent == 70

Callers == {1, 2}
Workers == 1..numWorkers
Procs   == {1, 2}

VARIABLES
    \* ---- V4L2Camera
    isOpen,         \* c.isOpen
    isStreaming,    \* c.isStreaming
    irAvailable,    \* c.irEmitter.Available
    irEnabled,      \* c.irEmitter.Enabled
    \* ---- PAMAuthenticator
    maxAttempts,    \* a.maxAttempts
    \* ---- environment of the run
    callers,        \* the goroutines that call into the authenticator
    flaky,          \* whether frame reads / face detection may fail
    repeat,         \* whether a caller calls again after its call returned
    \* ---- one record per call in flight
    pc,             \* position of the call
    kind,           \* "auth" (Authenticate) or "quick" (AuthenticateQuick)
    result,         \* the AuthResult being built / returned
    attempt,        \* loop variable of Authenticate
    ctx,            \* "none" | "running" | "done" (deadline passed)
    galleryLen,     \* len(userData.Embeddings)
    frames,         \* local `frames` of captureFramesForLiveness
    idx,            \* loop variable i of captureFramesForLiveness
    readStreaming,  \* c.isStreaming as seen when the pending ReadFrame began
    \* ---- history of the call (not program state)
    enrolled,       \* what the store answered: "missing" | "unloadable" | "ok"
    camTouched,     \* some Camera method was called during this call
    liveBatch,      \* the batch the Liveness Engine declared live in this attempt
    liveEval,       \* the liveness evaluation of the current attempt
    matchEval,      \* the gallery match of the current attempt
    lastUsedCalls,  \* UpdateLastUsed calls made by this call
    lastUsedErr,    \* the last UpdateLastUsed of this call returned an error
    everLive,       \* some attempt of this call passed the liveness check
    onlyCaptureErrs, \* every attempt of this call so far ended in a capture error
    \* ---- cmdTest
    mainPc,         \* position of cmdTest itself (the collector)
    captureI,       \* loop variable i of the capture goroutine
    rawFramesChan,  \* buffered channel of captureJob
    rawClosed,      \* close(rawFramesChan) has run
    workerPc,       \* position of each worker goroutine
    job,            \* the captureJob a worker is processing
    wg,             \* counter of the sync.WaitGroup
    resultsChan,    \* buffered channel of processedFrame
    resultsClosed,  \* close(resultsChan) has run
    processedResults, \* slice collected by cmdTest
    testFrames,     \* local `frames` of cmdTest
    embeddings,     \* local `embeddings` of cmdTest (capture indices)
    \* ---- history of cmdTest (not program state)
    queued,         \* every captureJob sent on rawFramesChan
    arrived,        \* capture indices in the order the results were collected
    detectInput,    \* the slice detector.Detect was called with, if it was
    \* ---- FileStorage and the processes using it
    file,           \* the user's file: "absent" | "partial" | a record
    clock,          \* time.Now()
    storePc,        \* position of each process
    op,             \* the operation each process is in
    user,           \* the operation's local `user`
    opsDone,        \* operations each process has finished
    \* ---- history of the store (not program state)
    added,          \* embeddings whose AddEmbedding returned nil
    partialRead,    \* some LoadUser read a file that was being written
    \* ---- LivenessDetector and one call of it
    config,         \* d.config
    batch,          \* the argument `frames` of the call
    landmarks,      \* what the landmarks of the batch give Detect3DGeometry
    returned,       \* what the call returned, once it has
    \* ---- DlibRecognizer and one call of FindBestMatch
    tolerance,      \* r.tolerance, in tenths
    probeArg,       \* the argument `probe` of the call
    galleryArg      \* the argument `gallery` of the call

camVars  == <<isOpen, isStreaming, irAvailable, irEnabled>>
callVars == <<pc, kind, result, attempt, ctx, galleryLen, frames, idx,
              readStreaming, enrolled, camTouched, liveBatch, liveEval,
              matchEval, lastUsedCalls, lastUsedErr, everLive, onlyCaptureErrs>>
envVars  == <<callers, flaky, repeat>>
authVars == <<camVars, maxAttempts, envVars, callVars>>
poolVars == <<mainPc, captureI, rawFramesChan, rawClosed, workerPc, job, wg,
              resultsChan, resultsClosed, processedResults, testFrames,
              embeddings, queued, arrived, detectInput>>
storeVars == <<file, clock, storePc, op, user, opsDone, added, partialRead>>
detVars  == <<config, batch, landmarks, returned>>
recVars  == <<tolerance, probeArg, galleryArg>>
vars     == <<authVars, poolVars, storeVars, detVars, recVars>>

(***************************************************************************)
(* AuthResult / AuthError                                                  *)
(***************************************************************************)
ErrCodeNoFace        == "NO_FACE"
ErrCodeMultipleFaces == "MULTIPLE_FACES"
ErrCodeLiveness      == "LIVENESS_FAILED"
ErrCodeNotRecognized == "NOT_RECOGNIZED"
ErrCodeCamera        == "CAMERA_ERROR"
ErrCodeTimeout       == "TIMEOUT"
ErrCodeNotEnrolled   == "NOT_ENROLLED"
NoError              == "nil"

\* AuthResult{Success: false, Username: username} (Attempts: 1 for the quick path)
NewResult(att) ==
    [Success |-> FALSE, Code |-> NoError, Retry |-> FALSE, Attempts |-> att,
     Reason |-> "", Confidence |-> 0]

\* result.Error = NewAuthError(code, retry); result.Reason = reason
WithError(r, code, retry, reason) ==
    [r EXCEPT !.Code = code, !.Retry = retry, !.Reason = reason]

NoEval == [att |-> 0]

\* what liveness.Detect can answer on a batch of at least 3 frames
DetectOutcomes ==
    { [IsLive |-> TRUE,  RequiresRetry |-> FALSE, Reason |-> ""],
      [IsLive |-> FALSE, RequiresRetry |-> FALSE,
       Reason |-> "face lacks 3D depth/movement (possible 2D photo)"],
      [IsLive |-> FALSE, RequiresRetry |-> TRUE,
       Reason |-> "face not consistently visible"] }

\* what liveness.QuickCheck can answer: (isLive, score)
QuickOutcomes == { [IsLive |-> TRUE], [IsLive |-> FALSE] }

Count(c) == IF kind[c] = "auth" THEN AuthCount ELSE QuickCount

Outcomes == IF flaky THEN BOOLEAN ELSE {TRUE}

RECURSIVE FaceFrames(_)
\* getBestEmbedding: the frames whose embedding enters the average
FaceFrames(fs) ==
    IF fs = <<>> THEN <<>>
    ELSE IF Head(fs).face /\ Head(fs).embLen > 0
         THEN <<Head(fs)>> \o FaceFrames(Tail(fs))
         ELSE FaceFrames(Tail(fs))

\* DlibRecognizer.FindBestMatch: (distance, matched) for a nearest distance d
FindBestMatch(glen, d) ==
    IF glen = 0 THEN [dist |-> MaxFloat64, matched |-> FALSE]
    ELSE [dist |-> d, matched |-> d < Tolerance]

(***************************************************************************)
(* V4L2Camera                                                              *)
(***************************************************************************)
\* EnableIREmitter: no-op without an emitter; Enabled only if the trigger worked
EnableIREmitter(ok) ==
    irEnabled' = IF irAvailable /\ ok THEN TRUE ELSE irEnabled

\* DisableIREmitter: errors ignored, Enabled is always cleared
DisableIREmitter ==
    irEnabled' = FALSE

\* faulty variant: ffmpeg is started without asking whether the camera is open
StartStreaming_NoOpenCheck(ok) ==
    isStreaming' = IF isStreaming THEN TRUE ELSE ok

\* StartStreaming: fails when closed or when ffmpeg does not start
StartStreaming(ok) ==
    isStreaming' = IF ~isOpen THEN isStreaming
                   ELSE IF isStreaming THEN TRUE
                   ELSE ok

\* faulty variant: a StopStreaming that leaves the stream running
StopStreaming_Skipped ==
    UNCHANGED isStreaming

\* StopStreaming: kills ffmpeg and clears the stream fields
StopStreaming ==
    isStreaming' = FALSE

(***************************************************************************)
(* Initial state: NewPAMAuthenticator has opened the camera                *)
(***************************************************************************)
\* no call of the authenticator has begun
InitCalls ==
    /\ pc = [c \in Callers |-> "idle"]
    /\ kind = [c \in Callers |-> "auth"]
    /\ result = [c \in Callers |-> NewResult(0)]
    /\ attempt = [c \in Callers |-> 0]
    /\ ctx = [c \in Callers |-> "none"]
    /\ galleryLen = [c \in Callers |-> 0]
    /\ frames = [c \in Callers |-> <<>>]
    /\ idx = [c \in Callers |-> 0]
    /\ readStreaming = [c \in Callers |-> FALSE]
    /\ enrolled = [c \in Callers |-> "ok"]
    /\ camTouched = [c \in Callers |-> FALSE]
    /\ liveBatch = [c \in Callers |-> <<>>]
    /\ liveEval = [c \in Callers |-> NoEval]
    /\ matchEval = [c \in Callers |-> NoEval]
    /\ lastUsedCalls = [c \in Callers |-> 0]
    /\ lastUsedErr = [c \in Callers |-> FALSE]
    /\ everLive = [c \in Callers |-> FALSE]
    /\ onlyCaptureErrs = [c \in Callers |-> TRUE]

InitAuth ==
    /\ isOpen = TRUE
    /\ isStreaming = FALSE
    /\ irAvailable \in BOOLEAN
    /\ irEnabled = FALSE
    /\ InitCalls

(***************************************************************************)
(* PAMAuthenticator.Authenticate / AuthenticateQuick, one action per step  *)
(* between two blocking points.  `c` is the calling goroutine.             *)
(***************************************************************************)
Set(f, c, v) == [f EXCEPT ![c] = v]

\* the variables every step of a call's body settles
bodyVars == <<pc, result, attempt, frames, idx, liveBatch>>

\* the call leaves its body with result r; its locals go out of scope and the
\* deferred calls run next
Return(c, r) ==
    /\ result' = Set(result, c, r)
    /\ pc' = Set(pc, c, "stopStream")
    /\ attempt' = Set(attempt, c, 0)
    /\ frames' = Set(frames, c, <<>>)
    /\ idx' = Set(idx, c, 0)
    /\ liveBatch' = Set(liveBatch, c, <<>>)

\* faulty variant: the frame buffer outlives the iteration
Continue_KeepsFrames(c, r) ==
    /\ result' = Set(result, c, r)
    /\ pc' = Set(pc, c, "attempt")
    /\ attempt' = Set(attempt, c, attempt[c] + 1)
    /\ idx' = Set(idx, c, 0)
    /\ UNCHANGED <<frames, liveBatch>>

\* `continue`: the next iteration of the attempt loop; the iteration's
\* locals go out of scope
Continue(c, r) ==
    /\ result' = Set(result, c, r)
    /\ pc' = Set(pc, c, "attempt")
    /\ attempt' = Set(attempt, c, attempt[c] + 1)
    /\ frames' = Set(frames, c, <<>>)
    /\ idx' = Set(idx, c, 0)
    /\ liveBatch' = Set(liveBatch, c, <<>>)

\* the body goes on at position p
Goto(c, p) ==
    /\ pc' = Set(pc, c, p)
    /\ UNCHANGED <<result, attempt, frames, idx, liveBatch>>

\* faulty variant: the answer of UserExists is ignored
Enroll_NoCheck(c, k, exists, loadOk, glen) ==
    /\ UNCHANGED <<poolVars, storeVars, detVars, recVars>>
    /\ lastUsedErr' = Set(lastUsedErr, c, FALSE)
    /\ everLive' = Set(everLive, c, FALSE)
    /\ onlyCaptureErrs' = Set(onlyCaptureErrs, c, TRUE)
    /\ kind' = Set(kind, c, k)
    /\ enrolled' = Set(enrolled, c, IF ~exists THEN "missing" ELSE "ok")
    /\ camTouched' = Set(camTouched, c, FALSE)
    /\ liveEval' = Set(liveEval, c, NoEval)
    /\ matchEval' = Set(matchEval, c, NoEval)
    /\ lastUsedCalls' = Set(lastUsedCalls, c, 0)
    /\ result' = Set(result, c, NewResult(IF k = "quick" THEN 1 ELSE 0))
    /\ pc' = Set(pc, c, IF k = "auth" THEN "enableIR" ELSE "startStream")
    /\ galleryLen' = Set(galleryLen, c, glen)
    /\ UNCHANGED <<camVars, maxAttempts, envVars, attempt, ctx, frames, idx,
                   readStreaming, liveBatch>>

\* auth.go 219-242 and 426-447: enrollment check and LoadUser
Enroll(c, k, exists, loadOk, glen) ==
    LET r0 == NewResult(IF k = "quick" THEN 1 ELSE 0) IN
    /\ UNCHANGED <<poolVars, storeVars, detVars, recVars>>
    /\ lastUsedErr' = Set(lastUsedErr, c, FALSE)
    /\ everLive' = Set(everLive, c, FALSE)
    /\ onlyCaptureErrs' = Set(onlyCaptureErrs, c, TRUE)
    /\ kind' = Set(kind, c, k)
    /\ enrolled' = Set(enrolled, c, IF ~exists THEN "missing"
                                     ELSE IF ~loadOk THEN "unloadable" ELSE "ok")
    /\ camTouched' = Set(camTouched, c, FALSE)
    /\ liveEval' = Set(liveEval, c, NoEval)
    /\ matchEval' = Set(matchEval, c, NoEval)
    /\ lastUsedCalls' = Set(lastUsedCalls, c, 0)
    /\ IF ~exists
       THEN /\ result' = Set(result, c,
                             WithError(r0, ErrCodeNotEnrolled, FALSE, "user not enrolled"))
            /\ pc' = Set(pc, c, "done")
            /\ galleryLen' = Set(galleryLen, c, 0)
       ELSE IF ~loadOk
       THEN /\ result' = Set(result, c,
                             WithError(r0, ErrCodeNotEnrolled, FALSE, "failed to load user data"))
            /\ pc' = Set(pc, c, "done")
            /\ galleryLen' = Set(galleryLen, c, 0)
       ELSE /\ result' = Set(result, c, r0)
            /\ pc' = Set(pc, c, IF k = "auth" THEN "enableIR" ELSE "startStream")
            /\ galleryLen' = Set(galleryLen, c, glen)
    /\ UNCHANGED <<camVars, maxAttempts, envVars, attempt, ctx, frames, idx,
                   readStreaming, liveBatch>>

\* Authenticate(username) is called
Authenticate(c) ==
    /\ c \in callers
    /\ pc[c] = "idle" \/ (repeat /\ pc[c] = "done")
    /\ \E exists \in BOOLEAN, loadOk \in BOOLEAN, glen \in 0..1 :
          Enroll(c, "auth", exists, loadOk, glen)

\* AuthenticateQuick(username) is called
AuthenticateQuick(c) ==
    /\ c \in callers
    /\ pc[c] = "idle" \/ (repeat /\ pc[c] = "done")
    /\ \E exists \in BOOLEAN, loadOk \in BOOLEAN, glen \in 0..1 :
          Enroll(c, "quick", exists, loadOk, glen)

\* faulty variant: a failure to enable the emitter ends the call
EnableIR_AbortsOnFailure(c) ==
    /\ UNCHANGED <<poolVars, storeVars, detVars, recVars>>
    /\ UNCHANGED <<lastUsedErr, everLive, onlyCaptureErrs>>
    /\ pc[c] = "enableIR"
    /\ \E ok \in Outcomes :
          /\ EnableIREmitter(ok)
          /\ IF irAvailable /\ ~ok
             THEN Return(c, WithError(result[c], ErrCodeCamera, TRUE,
                                      "failed to enable IR emitter"))
             ELSE Goto(c, "startStream")
    /\ camTouched' = Set(camTouched, c, TRUE)
    /\ ctx' = Set(ctx, c, "running")
    /\ UNCHANGED <<isOpen, isStreaming, irAvailable, maxAttempts, envVars,
                   kind, enrolled, galleryLen, readStreaming, liveEval, matchEval, lastUsedCalls>>

\* auth.go 244-256: HasIREmitter / EnableIREmitter, defer DisableIREmitter,
\* context.WithTimeout
EnableIR(c) ==
    /\ UNCHANGED <<poolVars, storeVars, detVars, recVars>>
    /\ UNCHANGED <<lastUsedErr, everLive, onlyCaptureErrs>>
    /\ pc[c] = "enableIR"
    /\ \E ok \in Outcomes : EnableIREmitter(ok)
    /\ camTouched' = Set(camTouched, c, TRUE)
    /\ ctx' = Set(ctx, c, "running")
    /\ Goto(c, "startStream")
    /\ UNCHANGED <<isOpen, isStreaming, irAvailable, maxAttempts, envVars,
                   kind, enrolled, galleryLen, readStreaming, liveEval, matchEval, lastUsedCalls>>

\* auth.go 258-266 and 450-459: (quick: context.WithTimeout,) StartStreaming,
\* defer StopStreaming, attempt := 1
StartStream(c) ==
    /\ UNCHANGED <<poolVars, storeVars, detVars, recVars>>
    /\ UNCHANGED <<lastUsedErr, everLive, onlyCaptureErrs>>
    /\ pc[c] = "startStream"
    /\ \E ok \in Outcomes : StartStreaming(ok)
    /\ camTouched' = Set(camTouched, c, TRUE)
    /\ ctx' = Set(ctx, c, IF kind[c] = "quick" THEN "running" ELSE ctx[c])
    /\ attempt' = Set(attempt, c, 1)
    /\ pc' = Set(pc, c, IF kind[c] = "auth" THEN "attempt" ELSE "capture")
    /\ UNCHANGED <<isOpen, irAvailable, irEnabled, maxAttempts, envVars,
                   kind, enrolled, result, galleryLen, frames, idx, readStreaming, liveBatch,
                   liveEval, matchEval, lastUsedCalls>>

\* the timer of context.WithTimeout fires
DeadlineExpires(c) ==
    /\ UNCHANGED <<poolVars, storeVars, detVars, recVars>>
    /\ UNCHANGED <<lastUsedErr, everLive, onlyCaptureErrs>>
    /\ ctx[c] = "running"
    /\ ctx' = Set(ctx, c, "done")
    /\ UNCHANGED <<camVars, maxAttempts, envVars, pc, kind, enrolled, result, attempt,
                   galleryLen, frames, idx, readStreaming, camTouched, liveBatch,
                   liveEval, matchEval, lastUsedCalls>>

\* faulty variant: Attempts is stamped only once the deadline check has passed
AttemptBegin_StampsLate(c) ==
    /\ UNCHANGED <<poolVars, storeVars, detVars, recVars>>
    /\ UNCHANGED <<lastUsedErr, everLive, onlyCaptureErrs>>
    /\ pc[c] = "attempt"
    /\ IF attempt[c] > maxAttempts
       THEN /\ Return(c, WithError(result[c], ErrCodeNotRecognized, FALSE,
                                   "face not recognized after maximum attempts"))
            /\ UNCHANGED <<liveEval, matchEval>>
       ELSE IF ctx[c] = "done"
            THEN /\ Return(c, WithError(result[c], ErrCodeTimeout, FALSE,
                                        "authentication timed out"))
                 /\ UNCHANGED <<liveEval, matchEval>>
            ELSE /\ result' = Set(result, c, [result[c] EXCEPT !.Attempts = attempt[c]])
                 /\ pc' = Set(pc, c, "capture")
                 /\ liveEval' = Set(liveEval, c, NoEval)
                 /\ matchEval' = Set(matchEval, c, NoEval)
                 /\ UNCHANGED <<attempt, frames, idx, liveBatch>>
    /\ UNCHANGED <<camVars, maxAttempts, envVars, kind, enrolled, ctx,
                   galleryLen, readStreaming, camTouched, lastUsedCalls>>

\* auth.go 266-278 and 335-339: loop condition, Attempts, deadline check
AttemptBegin(c) ==
    /\ UNCHANGED <<poolVars, storeVars, detVars, recVars>>
    /\ UNCHANGED <<lastUsedErr, everLive, onlyCaptureErrs>>
    /\ pc[c] = "attempt"
    /\ IF attempt[c] > maxAttempts
       THEN /\ Return(c, WithError(result[c], ErrCodeNotRecognized, FALSE,
                                   "face not recognized after maximum attempts"))
            /\ UNCHANGED <<liveEval, matchEval>>
       ELSE LET r == [result[c] EXCEPT !.Attempts = attempt[c]] IN
            IF ctx[c] = "done"
            THEN /\ Return(c, WithError(r, ErrCodeTimeout, FALSE, "authentication timed out"))
                 /\ UNCHANGED <<liveEval, matchEval>>
            ELSE /\ result' = Set(result, c, r)
                 /\ pc' = Set(pc, c, "capture")
                 /\ liveEval' = Set(liveEval, c, NoEval)
                 /\ matchEval' = Set(matchEval, c, NoEval)
                 /\ UNCHANGED <<attempt, frames, idx, liveBatch>>
    /\ UNCHANGED <<camVars, maxAttempts, envVars, kind, enrolled, ctx,
                   galleryLen, readStreaming, camTouched, lastUsedCalls>>

\* faulty variant: a capture error ends Authenticate as it ends AuthenticateQuick
CaptureFailed_Surfaces(c) ==
    Return(c, WithError(result[c], ErrCodeCamera, TRUE, "failed to capture frames"))

\* captureFramesForLiveness returned an error to its caller:
\* auth.go 282-291 (Authenticate) and 462-467 (AuthenticateQuick)
CaptureFailed(c) ==
    IF kind[c] = "auth"
    THEN IF ctx[c] = "done"
         THEN Return(c, WithError(result[c], ErrCodeTimeout, FALSE,
                                  "authentication timed out"))
         ELSE Continue(c, result[c])
    ELSE Return(c, WithError(result[c], ErrCodeCamera, TRUE, "failed to capture frames"))

\* faulty variant: when the deadline passes, the frames read so far are
\* returned without an error if there are enough of them
CaptureLoop_KeepsPartial(c) ==
    /\ UNCHANGED <<poolVars, storeVars, detVars, recVars>>
    /\ onlyCaptureErrs' = Set(onlyCaptureErrs, c,
                               onlyCaptureErrs[c] /\ ~(idx[c] >= Count(c) /\ Len(frames[c]) >= MinFrames))
    /\ UNCHANGED <<lastUsedErr, everLive>>
    /\ pc[c] = "capture"
    /\ IF idx[c] < Count(c)
       THEN IF ctx[c] = "done"
            THEN /\ IF Len(frames[c]) < MinFrames
                    THEN CaptureFailed(c)
                    ELSE Goto(c, "liveness")
                 /\ UNCHANGED <<readStreaming, camTouched>>
            ELSE /\ Goto(c, "inRead")
                 /\ readStreaming' = Set(readStreaming, c, isStreaming)
                 /\ camTouched' = Set(camTouched, c, TRUE)
       ELSE /\ IF Len(frames[c]) < MinFrames
               THEN CaptureFailed(c)
               ELSE Goto(c, "liveness")
            /\ UNCHANGED <<readStreaming, camTouched>>
    /\ UNCHANGED <<camVars, maxAttempts, envVars, kind, enrolled, ctx, galleryLen,
                   liveEval, matchEval, lastUsedCalls>>

\* auth.go 346-355 and 398-402: loop condition of captureFramesForLiveness,
\* the deadline check before each frame, the call of ReadFrame, the length check
CaptureLoop(c) ==
    /\ UNCHANGED <<poolVars, storeVars, detVars, recVars>>
    /\ onlyCaptureErrs' = Set(onlyCaptureErrs, c,
                               onlyCaptureErrs[c] /\ ~(idx[c] >= Count(c) /\ Len(frames[c]) >= MinFrames))
    /\ UNCHANGED <<lastUsedErr, everLive>>
    /\ pc[c] = "capture"
    /\ IF idx[c] < Count(c)
       THEN IF ctx[c] = "done"
            THEN /\ CaptureFailed(c)
                 /\ UNCHANGED <<readStreaming, camTouched>>
            ELSE /\ Goto(c, "inRead")
                 /\ readStreaming' = Set(readStreaming, c, isStreaming)
                 /\ camTouched' = Set(camTouched, c, TRUE)
       ELSE /\ IF Len(frames[c]) < MinFrames
               THEN CaptureFailed(c)
               ELSE Goto(c, "liveness")
            /\ UNCHANGED <<readStreaming, camTouched>>
    /\ UNCHANGED <<camVars, maxAttempts, envVars, kind, enrolled, ctx, galleryLen,
                   liveEval, matchEval, lastUsedCalls>>

\* camera.go 447-520: what a ReadFrame that began in mode `streaming` can
\* answer.  A stream torn down under the reader (stream fields set to nil by a
\* concurrent StopStreaming) gives an error or a nil dereference.
ReadFrameOutcomes(streaming) ==
    IF streaming /\ ~isStreaming THEN {"error", "panic"}
    ELSE IF ~streaming /\ ~isOpen THEN {"error"}
    ELSE IF flaky THEN {"frame", "error"}
    ELSE {"frame"}

\* auth.go 355-359: ReadFrame returns
ReadFrameReturn(c) ==
    /\ UNCHANGED <<poolVars, storeVars, detVars, recVars>>
    /\ UNCHANGED <<lastUsedErr, everLive, onlyCaptureErrs>>
    /\ pc[c] = "inRead"
    /\ \E out \in ReadFrameOutcomes(readStreaming[c]) :
          CASE out = "frame" -> Goto(c, "inDetect")
            [] out = "error" -> /\ pc' = Set(pc, c, "capture")
                                /\ idx' = Set(idx, c, idx[c] + 1)
                                /\ UNCHANGED <<result, attempt, frames, liveBatch>>
            [] out = "panic" -> Return(c, WithError(result[c], "PANIC", FALSE,
                                                    "nil stream reader"))
    /\ readStreaming' = Set(readStreaming, c, FALSE)
    /\ UNCHANGED <<camVars, maxAttempts, envVars, kind, enrolled, ctx,
                   galleryLen, camTouched, liveEval, matchEval, lastUsedCalls>>

\* auth.go 361-393: the liveness.Frame built from a camera frame
LiveFrame(att, i, faceFound) ==
    [att |-> att, idx |-> i, face |-> faceFound, embLen |-> EmbeddingLen]

\* auth.go 370-393: DetectSingleFace returns, the frame is appended
DetectSingleFaceReturn(c) ==
    /\ UNCHANGED <<poolVars, storeVars, detVars, recVars>>
    /\ UNCHANGED <<lastUsedErr, everLive, onlyCaptureErrs>>
    /\ pc[c] = "inDetect"
    /\ \E faceFound \in Outcomes :
          frames' = Set(frames, c, Append(frames[c], LiveFrame(attempt[c], idx[c], faceFound)))
    /\ idx' = Set(idx, c, idx[c] + 1)
    /\ pc' = Set(pc, c, "capture")
    /\ UNCHANGED <<camVars, maxAttempts, envVars, kind, enrolled, result, attempt, ctx,
                   galleryLen, readStreaming, camTouched, liveBatch, liveEval,
                   matchEval, lastUsedCalls>>

\* a live verdict: the body goes on to the embedding and the match
Live(c) ==
    /\ pc' = Set(pc, c, "match")
    /\ liveBatch' = Set(liveBatch, c, frames[c])
    /\ UNCHANGED <<result, attempt, frames, idx>>

\* faulty variant: a retryable not-live verdict falls through to the match
AuthLiveness_FallsThrough(c, res) ==
    IF ~res.IsLive /\ ~res.RequiresRetry
    THEN Return(c, WithError(result[c], ErrCodeLiveness, FALSE, res.Reason))
    ELSE Live(c)

\* faulty variant: every not-live verdict is retried
AuthLiveness_AlwaysRetries(c, res) ==
    IF ~res.IsLive
    THEN Continue(c, WithError(result[c], ErrCodeLiveness, res.RequiresRetry, res.Reason))
    ELSE Live(c)

\* auth.go 293-306: Detect and the handling of a not-live verdict
AuthLiveness(c, res) ==
    IF ~res.IsLive
    THEN LET r == WithError(result[c], ErrCodeLiveness, res.RequiresRetry, res.Reason) IN
         IF ~res.RequiresRetry
         THEN Return(c, r)
         ELSE Continue(c, r)
    ELSE Live(c)

\* faulty variant: a failed quick liveness check is final, as in Authenticate
QuickLiveness_NoRetry(c, res) ==
    IF ~res.IsLive
    THEN Return(c, WithError(result[c], ErrCodeLiveness, FALSE, "quick liveness check failed"))
    ELSE Live(c)

\* auth.go 469-476: QuickCheck and the handling of a not-live verdict
QuickLiveness(c, res) ==
    IF ~res.IsLive
    THEN Return(c, WithError(result[c], ErrCodeLiveness, TRUE, "quick liveness check failed"))
    ELSE Live(c)

\* the Liveness Engine is run over the batch
Liveness(c) ==
    /\ UNCHANGED <<poolVars, storeVars, detVars, recVars>>
    /\ UNCHANGED <<lastUsedErr, onlyCaptureErrs>>
    /\ pc[c] = "liveness"
    /\ IF kind[c] = "auth"
       THEN \E res \in DetectOutcomes :
               /\ AuthLiveness(c, res)
               /\ everLive' = Set(everLive, c, everLive[c] \/ res.IsLive)
               /\ liveEval' = Set(liveEval, c, [att |-> attempt[c], IsLive |-> res.IsLive,
                                                RequiresRetry |-> res.RequiresRetry,
                                                Reason |-> res.Reason,
                                                n |-> Len(frames[c])])
       ELSE \E res \in QuickOutcomes :
               /\ QuickLiveness(c, res)
               /\ everLive' = Set(everLive, c, everLive[c] \/ res.IsLive)
               /\ liveEval' = Set(liveEval, c, [att |-> attempt[c], IsLive |-> res.IsLive,
                                                n |-> Len(frames[c])])
    /\ UNCHANGED <<camVars, maxAttempts, envVars, kind, enrolled, ctx, galleryLen,
                   readStreaming, camTouched, matchEval, lastUsedCalls>>

\* faulty variant: a match does not touch the last-used timestamp
Matched_NoUpdate(c, m) ==
    IF m.matched
    THEN /\ Return(c, [result[c] EXCEPT !.Success = TRUE, !.Confidence = One - m.dist])
         /\ UNCHANGED lastUsedCalls
    ELSE /\ IF kind[c] = "auth"
            THEN Continue(c, result[c])
            ELSE Return(c, WithError(result[c], ErrCodeNotRecognized, FALSE,
                                     "face not recognized"))
         /\ UNCHANGED lastUsedCalls

\* faulty variant: a probe that matches nothing ends the call at once
Matched_NoRetry(c, m) ==
    IF m.matched
    THEN /\ Return(c, [result[c] EXCEPT !.Success = TRUE, !.Confidence = One - m.dist])
         /\ lastUsedCalls' = Set(lastUsedCalls, c,
                                 IF kind[c] = "auth" THEN lastUsedCalls[c] + 1
                                 ELSE lastUsedCalls[c])
    ELSE /\ Return(c, WithError(result[c], ErrCodeNotRecognized, FALSE,
                                "face not recognized"))
         /\ UNCHANGED lastUsedCalls

\* auth.go 315-330 and 487-500: the outcome of FindBestMatch is acted upon
Matched(c, m) ==
    IF m.matched
    THEN /\ Return(c, [result[c] EXCEPT !.Success = TRUE, !.Confidence = One - m.dist])
         /\ lastUsedCalls' = Set(lastUsedCalls, c,
                                 IF kind[c] = "auth" THEN lastUsedCalls[c] + 1
                                 ELSE lastUsedCalls[c])
    ELSE /\ IF kind[c] = "auth"
            THEN Continue(c, result[c])
            ELSE Return(c, WithError(result[c], ErrCodeNotRecognized, FALSE,
                                     "face not recognized"))
         /\ UNCHANGED lastUsedCalls

\* auth.go 308-333 and 478-500: getBestEmbedding, FindBestMatch
Match(c) ==
    /\ UNCHANGED <<poolVars, storeVars, detVars, recVars>>
    /\ UNCHANGED <<everLive, onlyCaptureErrs>>
    /\ pc[c] = "match"
    /\ LET probe == FaceFrames(frames[c]) IN
       IF probe = <<>>
       THEN /\ IF kind[c] = "auth"
               THEN Continue(c, result[c])
               ELSE Return(c, WithError(result[c], ErrCodeNoFace, TRUE, "no face detected"))
            /\ UNCHANGED <<matchEval, lastUsedCalls, lastUsedErr>>
       ELSE \E d \in 0..MaxDist :
               LET m == FindBestMatch(galleryLen[c], d) IN
               /\ \E ok \in (IF m.matched /\ kind[c] = "auth" THEN Outcomes ELSE {TRUE}) :
                     lastUsedErr' = Set(lastUsedErr, c, ~ok)
               /\ matchEval' = Set(matchEval, c,
                     [att |-> attempt[c], dist |-> m.dist, matched |-> m.matched,
                      onLiveBatch |-> /\ liveEval[c].att = attempt[c]
                                      /\ liveEval[c].IsLive
                                      /\ probe = FaceFrames(liveBatch[c])])
               /\ Matched(c, m)
    /\ UNCHANGED <<camVars, maxAttempts, envVars, kind, enrolled, ctx, galleryLen,
                   readStreaming, camTouched, liveEval>>

\* auth.go 262-264 and 457-459: the deferred StopStreaming (then cancel)
StopStream(c) ==
    /\ UNCHANGED <<poolVars, storeVars, detVars, recVars>>
    /\ UNCHANGED <<lastUsedErr, everLive, onlyCaptureErrs>>
    /\ pc[c] = "stopStream"
    /\ StopStreaming
    /\ camTouched' = Set(camTouched, c, TRUE)
    /\ ctx' = Set(ctx, c, "none")
    /\ pc' = Set(pc, c, IF kind[c] = "auth" THEN "disableIR"
                        ELSE IF result[c].Code = "PANIC" THEN "crashed" ELSE "done")
    /\ UNCHANGED <<isOpen, irAvailable, irEnabled, maxAttempts, envVars, kind, enrolled,
                   result, attempt, galleryLen, frames, idx, readStreaming, liveBatch,
                   liveEval, matchEval, lastUsedCalls>>

\* auth.go 250-252: the deferred DisableIREmitter; the call returns
DisableIR(c) ==
    /\ UNCHANGED <<poolVars, storeVars, detVars, recVars>>
    /\ UNCHANGED <<lastUsedErr, everLive, onlyCaptureErrs>>
    /\ pc[c] = "disableIR"
    /\ DisableIREmitter
    /\ pc' = Set(pc, c, IF result[c].Code = "PANIC" THEN "crashed" ELSE "done")
    /\ UNCHANGED <<isOpen, isStreaming, irAvailable, maxAttempts, envVars, kind, enrolled,
                   result, attempt, ctx, galleryLen, frames, idx, readStreaming,
                   camTouched, liveBatch, liveEval, matchEval, lastUsedCalls>>

NextAuth ==
    \E c \in Callers :
        \/ Authenticate(c)
        \/ AuthenticateQuick(c)
        \/ EnableIR(c)
        \/ StartStream(c)
        \/ DeadlineExpires(c)
        \/ AttemptBegin(c)
        \/ CaptureLoop(c)
        \/ ReadFrameReturn(c)
        \/ DetectSingleFaceReturn(c)
        \/ Liveness(c)
        \/ Match(c)
        \/ StopStream(c)
        \/ DisableIR(c)

(***************************************************************************)
(* cmdTest: the capture goroutine, the worker pool, the closer goroutine   *)
(* and the collecting loop                                                 *)
(***************************************************************************)
\* faulty variant: the capacity of the channels is rounded down
processCount_RoundedDown == captureCount \div processInterval

\* frames that are queued for extraction
processCount == (captureCount + processInterval - 1) \div processInterval

NoJob == [index |-> -1, err |-> FALSE]

\* processedFrame{index, liveFrame, embedding}; liveFrame.src records the
\* capture index the frame was read at (liveness.Frame itself carries none)
processedFrame(i, faceFound) ==
    [index |-> i, liveFrame |-> [src |-> i, FaceFound |-> faceFound],
     embedding |-> faceFound]

RECURSIVE Insert(_, _)
Insert(x, s) ==
    IF s = <<>> THEN <<x>>
    ELSE IF x.index < Head(s).index THEN <<x>> \o s
    ELSE <<Head(s)>> \o Insert(x, Tail(s))

\* faulty variant: the results are used in arrival order
SortByIndex_ArrivalOrder(s) ==
    s

RECURSIVE SortByIndex(_)
\* sort.Slice(processedResults, less by index)
SortByIndex(s) ==
    IF s = <<>> THEN <<>> ELSE Insert(Head(s), SortByIndex(Tail(s)))

RECURSIVE WithEmbedding(_)
\* the capture indices of the results that carry an embedding
WithEmbedding(s) ==
    IF s = <<>> THEN <<>>
    ELSE IF Head(s).embedding THEN <<Head(s).index>> \o WithEmbedding(Tail(s))
    ELSE WithEmbedding(Tail(s))

\* what cmdTest leaves alone (it uses the camera's stream)
otherThanPool == <<isOpen, irAvailable, irEnabled, maxAttempts, envVars, callVars,
                   storeVars, detVars, recVars>>

InitPool ==
    /\ mainPc = "start"
    /\ captureI = 0
    /\ rawFramesChan = <<>>
    /\ rawClosed = FALSE
    /\ workerPc = [w \in Workers |-> "idle"]
    /\ job = [w \in Workers |-> NoJob]
    /\ wg = 0
    /\ resultsChan = <<>>
    /\ resultsClosed = FALSE
    /\ processedResults = <<>>
    /\ testFrames = <<>>
    /\ embeddings = <<>>
    /\ queued = {}
    /\ arrived = <<>>
    /\ detectInput = <<>>

\* StartStreaming, the two channels, the go statements and wg.Add
PoolStart ==
    /\ UNCHANGED otherThanPool
    /\ mainPc = "start"
    /\ \E ok \in BOOLEAN : StartStreaming(ok)
    /\ mainPc' = "collect"
    /\ workerPc' = [w \in Workers |-> "recv"]
    /\ wg' = numWorkers
    /\ UNCHANGED <<captureI, rawFramesChan, rawClosed, job, resultsChan, resultsClosed,
                   processedResults, testFrames, embeddings, queued, detectInput, arrived>>

\* one iteration of the capture goroutine: ReadFrame, and the send of every
\* processInterval-th frame (with the error ReadFrame gave)
CaptureFrame ==
    /\ UNCHANGED otherThanPool
    /\ mainPc # "start"
    /\ captureI < captureCount
    /\ IF captureI % processInterval = 0
       THEN /\ Len(rawFramesChan) < processCount
            /\ \E err \in BOOLEAN :
                  LET j == [index |-> captureI, err |-> err] IN
                  /\ rawFramesChan' = Append(rawFramesChan, j)
                  /\ queued' = queued \cup {j}
       ELSE UNCHANGED <<rawFramesChan, queued>>
    /\ captureI' = captureI + 1
    /\ UNCHANGED <<isStreaming, mainPc, rawClosed, workerPc, job, wg, resultsChan,
                   resultsClosed, processedResults, testFrames, embeddings, detectInput, arrived>>

\* the capture goroutine returns: defer close(rawFramesChan)
CaptureClose ==
    /\ UNCHANGED otherThanPool
    /\ mainPc # "start"
    /\ captureI = captureCount
    /\ ~rawClosed
    /\ rawClosed' = TRUE
    /\ UNCHANGED <<isStreaming, mainPc, captureI, rawFramesChan, workerPc, job, wg,
                   resultsChan, resultsClosed, processedResults, testFrames,
                   embeddings, queued, detectInput, arrived>>

\* a worker receives a job; a job that carries an error is skipped
WorkerReceive(w) ==
    /\ UNCHANGED otherThanPool
    /\ workerPc[w] = "recv"
    /\ rawFramesChan # <<>>
    /\ rawFramesChan' = Tail(rawFramesChan)
    /\ IF Head(rawFramesChan).err
       THEN UNCHANGED <<workerPc, job>>
       ELSE /\ job' = Set(job, w, Head(rawFramesChan))
            /\ workerPc' = Set(workerPc, w, "process")
    /\ UNCHANGED <<isStreaming, mainPc, captureI, rawClosed, wg, resultsChan,
                   resultsClosed, processedResults, testFrames, embeddings, queued,
                   detectInput, arrived>>

\* DetectSingleFace on the job's frame and the send of the processedFrame
WorkerProcess(w) ==
    /\ UNCHANGED otherThanPool
    /\ workerPc[w] = "process"
    /\ Len(resultsChan) < processCount
    /\ \E faceFound \in BOOLEAN :
          resultsChan' = Append(resultsChan, processedFrame(job[w].index, faceFound))
    /\ job' = Set(job, w, NoJob)
    /\ workerPc' = Set(workerPc, w, "recv")
    /\ UNCHANGED <<isStreaming, mainPc, captureI, rawFramesChan, rawClosed, wg,
                   resultsClosed, processedResults, testFrames, embeddings, queued,
                   detectInput, arrived>>

\* the range over the closed, drained rawFramesChan ends: defer wg.Done()
WorkerExit(w) ==
    /\ UNCHANGED otherThanPool
    /\ workerPc[w] = "recv"
    /\ rawFramesChan = <<>>
    /\ rawClosed
    /\ workerPc' = Set(workerPc, w, "exited")
    /\ wg' = wg - 1
    /\ UNCHANGED <<isStreaming, mainPc, captureI, rawFramesChan, rawClosed, job,
                   resultsChan, resultsClosed, processedResults, testFrames,
                   embeddings, queued, detectInput, arrived>>

\* faulty variant: the wait ends as soon as one worker is done
AllWorkersDone_AnyDone ==
    wg < numWorkers

\* wg.Wait() returns
AllWorkersDone ==
    wg = 0

\* the closer goroutine: wg.Wait(); close(resultsChan)
Closer ==
    /\ UNCHANGED otherThanPool
    /\ mainPc # "start"
    /\ AllWorkersDone
    /\ ~resultsClosed
    /\ resultsClosed' = TRUE
    /\ UNCHANGED <<isStreaming, mainPc, captureI, rawFramesChan, rawClosed, workerPc,
                   job, wg, resultsChan, processedResults, testFrames, embeddings,
                   queued, detectInput, arrived>>

\* one iteration of `for res := range resultsChan`
Collect ==
    /\ UNCHANGED otherThanPool
    /\ mainPc = "collect"
    /\ resultsChan # <<>>
    /\ processedResults' = Append(processedResults, Head(resultsChan))
    /\ resultsChan' = Tail(resultsChan)
    /\ arrived' = Append(arrived, Head(resultsChan).index)
    /\ UNCHANGED <<isStreaming, mainPc, captureI, rawFramesChan, rawClosed, workerPc,
                   job, wg, resultsClosed, testFrames, embeddings, queued, detectInput>>

\* the range over the closed, drained resultsChan ends; StopStreaming
CollectDone ==
    /\ UNCHANGED otherThanPool
    /\ mainPc = "collect"
    /\ resultsChan = <<>>
    /\ resultsClosed
    /\ StopStreaming
    /\ mainPc' = "sort"
    /\ UNCHANGED <<captureI, rawFramesChan, rawClosed, workerPc, job, wg, resultsChan,
                   resultsClosed, processedResults, testFrames, embeddings, queued,
                   detectInput, arrived>>

\* sort.Slice by index, then frames and embeddings are built in that order
SortResults ==
    /\ UNCHANGED otherThanPool
    /\ mainPc = "sort"
    /\ LET sorted == SortByIndex(processedResults) IN
       /\ processedResults' = sorted
       /\ testFrames' = [i \in 1..Len(sorted) |-> sorted[i].liveFrame]
       /\ embeddings' = WithEmbedding(sorted)
    /\ mainPc' = "check"
    /\ UNCHANGED <<isStreaming, captureI, rawFramesChan, rawClosed, workerPc, job, wg,
                   resultsChan, resultsClosed, queued, detectInput, arrived>>

\* no embedding: return; otherwise detector.Detect(frames)
RunDetect ==
    /\ UNCHANGED otherThanPool
    /\ mainPc = "check"
    /\ detectInput' = IF embeddings = <<>> THEN detectInput
                      ELSE Append(detectInput, testFrames)
    /\ mainPc' = "done"
    /\ UNCHANGED <<isStreaming, captureI, rawFramesChan, rawClosed, workerPc, job, wg,
                   resultsChan, resultsClosed, processedResults, testFrames, embeddings,
                   queued, arrived>>

NextPool ==
    \/ PoolStart
    \/ CaptureFrame
    \/ CaptureClose
    \/ \E w \in Workers : WorkerReceive(w)
    \/ \E w \in Workers : WorkerProcess(w)
    \/ \E w \in Workers : WorkerExit(w)
    \/ Closer
    \/ Collect
    \/ CollectDone
    \/ SortResults
    \/ RunDetect

(***************************************************************************)
(* FileStorage: processes operating on the file of one user.  Nothing in   *)
(* FileStorage takes a lock; os.WriteFile truncates the file, then writes. *)
(***************************************************************************)
Ops == {"AddEmbedding", "UpdateLastUsed", "CreateUser", "LoadUser"}

AbsentFile  == [state |-> "absent",  Embeddings |-> <<>>, LastUsed |-> 0]
PartialFile == [state |-> "partial", Embeddings |-> <<>>, LastUsed |-> 0]
NoUser      == [Embeddings |-> <<>>, LastUsed |-> 0]

\* the file SaveUser(u) leaves once os.WriteFile has returned
StoredFile(u) ==
    [state |-> "complete", Embeddings |-> u.Embeddings, LastUsed |-> u.LastUsed]

\* the embedding a process passes to the operation it is in
NewEmbedding(p) == 10 * p + opsDone[p]

Elems(s) == {s[i] : i \in 1..Len(s)}

StoreIdle ==
    /\ clock = 1
    /\ storePc = [p \in Procs |-> "idle"]
    /\ op = [p \in Procs |-> "LoadUser"]
    /\ user = [p \in Procs |-> NoUser]
    /\ opsDone = [p \in Procs |-> 0]
    /\ added = {}
    /\ partialRead = FALSE

InitStore ==
    /\ StoreIdle
    /\ file \in {AbsentFile, StoredFile([Embeddings |-> <<0>>, LastUsed |-> 0])}

\* the operation returns to its caller
OpReturns(p) ==
    /\ storePc' = Set(storePc, p, "idle")
    /\ opsDone' = Set(opsDone, p, opsDone[p] + 1)
    /\ user' = Set(user, p, NoUser)

\* a process calls AddEmbedding, UpdateLastUsed, CreateUser or LoadUser
Call(p) ==
    /\ UNCHANGED <<authVars, poolVars, detVars, recVars>>
    /\ storePc[p] = "idle"
    /\ opsDone[p] < MaxOps
    /\ \E o \in Ops :
          /\ op' = Set(op, p, o)
          /\ storePc' = Set(storePc, p, IF o = "CreateUser" THEN "stat" ELSE "load")
    /\ UNCHANGED <<file, clock, user, opsDone, added, partialRead>>

\* LoadUser: os.ReadFile, decrypt, json.Unmarshal; AddEmbedding and
\* UpdateLastUsed then change their copy of the record
LoadUser(p) ==
    /\ UNCHANGED <<authVars, poolVars, detVars, recVars>>
    /\ storePc[p] = "load"
    /\ IF file.state = "absent"
       THEN /\ OpReturns(p)
            /\ UNCHANGED <<clock, partialRead>>
       ELSE IF file.state = "partial"
       THEN /\ OpReturns(p)
            /\ partialRead' = TRUE
            /\ UNCHANGED clock
       ELSE IF op[p] = "LoadUser"
       THEN /\ OpReturns(p)
            /\ UNCHANGED <<clock, partialRead>>
       ELSE /\ user' = Set(user, p,
                  [Embeddings |-> IF op[p] = "AddEmbedding"
                                  THEN Append(file.Embeddings, NewEmbedding(p))
                                  ELSE file.Embeddings,
                   LastUsed |-> clock])
            /\ clock' = clock + 1
            /\ storePc' = Set(storePc, p, "save")
            /\ UNCHANGED <<opsDone, partialRead>>
    /\ UNCHANGED <<file, op, added>>

\* CreateUser: UserExists (os.Stat), then the new record is built
UserExists(p) ==
    /\ UNCHANGED <<authVars, poolVars, detVars, recVars>>
    /\ storePc[p] = "stat"
    /\ IF file.state # "absent"
       THEN /\ OpReturns(p)
            /\ UNCHANGED clock
       ELSE /\ user' = Set(user, p, [Embeddings |-> <<NewEmbedding(p)>>, LastUsed |-> clock])
            /\ clock' = clock + 1
            /\ storePc' = Set(storePc, p, "save")
            /\ UNCHANGED opsDone
    /\ UNCHANGED <<file, op, added, partialRead>>

\* SaveUser: os.WriteFile opens the file with O_CREATE|O_TRUNC
SaveUserOpen(p) ==
    /\ UNCHANGED <<authVars, poolVars, detVars, recVars>>
    /\ storePc[p] = "save"
    /\ file' = PartialFile
    /\ storePc' = Set(storePc, p, "write")
    /\ UNCHANGED <<clock, op, user, opsDone, added, partialRead>>

\* SaveUser: os.WriteFile writes the data and closes; the operation returns nil
SaveUserWrite(p) ==
    /\ UNCHANGED <<authVars, poolVars, detVars, recVars>>
    /\ storePc[p] = "write"
    /\ file' = StoredFile(user[p])
    /\ added' = IF op[p] = "AddEmbedding"
                THEN added \cup {user[p].Embeddings[Len(user[p].Embeddings)]}
                ELSE added
    /\ OpReturns(p)
    /\ UNCHANGED <<clock, op, partialRead>>

NextStore ==
    \E p \in Procs :
        \/ Call(p)
        \/ LoadUser(p)
        \/ UserExists(p)
        \/ SaveUserOpen(p)
        \/ SaveUserWrite(p)

(***************************************************************************)
(* liveness.LivenessDetector (pkg/liveness/detector.go).  An embedding is  *)
(* a point on a line, in tenths, so that embeddingDistance is the          *)
(* absolute difference; scores are kept as fractions num/den.              *)
(***************************************************************************)
\* the embeddings a frame with a face can carry
Positions == {0, 1, 3, 9}

\* a frame in which no face was found: its Embedding was never assigned
NoFaceFrame == [FaceFound |-> FALSE, emb |-> 0]

\* liveness.Frame
Frames == {NoFaceFrame} \cup {[FaceFound |-> TRUE, emb |-> q] : q \in Positions}

Batches == UNION {[1..n -> Frames] : n \in 0..MaxBatch}

\* what Detect3DGeometry finds in the landmarks of a batch: fewer than five
\* usable yaw/pitch samples, or five and more whose variance is at most
\* ("flat") or above ("varied") DepthThreshold
Geometry == {"few", "flat", "varied"}

\* MinScore of ConfigFromLevel's four levels, in hundredths
MinScores == {50, 65, 80, 90}

\* liveness.Config: the fields Detect reads, and Require3D, which it does not
Configs == [Require3D : BOOLEAN, RequireConsistency : BOOLEAN, MinScore : MinScores]

DefaultConfig == [Require3D |-> TRUE, RequireConsistency |-> TRUE, MinScore |-> 65]

\* Result.Checks before any check is recorded
NoChecks == [n \in {} |-> FALSE]

\* Result.Score = 0.0
ZeroScore == [num |-> 0, den |-> 1]

\* reading a Go map: a missing key reads as false
Checked(checks, n) == IF n \in DOMAIN checks THEN checks[n] ELSE FALSE

Abs(x) == IF x < 0 THEN -x ELSE x

RECURSIVE extractEmbeddings(_)
\* extractEmbeddings: the embeddings of the frames with a face
extractEmbeddings(fs) ==
    IF fs = <<>> THEN <<>>
    ELSE IF Head(fs).FaceFound /\ EmbeddingLen > 0
         THEN <<Head(fs).emb>> \o extractEmbeddings(Tail(fs))
         ELSE extractEmbeddings(Tail(fs))

\* embeddingDistance of consecutive embeddings
distances(es) == [i \in 1..(Len(es) - 1) |-> Abs(es[i + 1] - es[i])]

RECURSIVE SumSeq(_)
SumSeq(ds) == IF ds = <<>> THEN 0 ELSE Head(ds) + SumSeq(Tail(ds))

\* faulty variant: no lower bound on the variance
CheckConsistency_NoMinVariance(es) ==
    IF Len(es) < MinEmbeddings THEN FALSE
    ELSE LET ds == distances(es)
             m  == Len(ds)
             S  == SumSeq(ds)
             V  == SumSeq([i \in 1..m |-> (m * ds[i] - S) * (m * ds[i] - S)])
         IN  /\ ~(V > 10 * m * m * m)
             /\ ~(S > 6 * m)

\* CheckConsistency: with m distances of sum S, mean = S/(10m) and
\* variance = V/(100 m^3) for V = sum of (m*d - S)^2; the variance must be
\* at least consistencyMinVar/10 = 0.0001 and at most consistencyMaxVar =
\* 0.1, the mean at most 0.6
CheckConsistency(es) ==
    IF Len(es) < MinEmbeddings THEN FALSE
    ELSE LET ds == distances(es)
             m  == Len(ds)
             S  == SumSeq(ds)
             V  == SumSeq([i \in 1..m |-> (m * ds[i] - S) * (m * ds[i] - S)])
         IN  /\ ~(100 * V < m * m * m)
             /\ ~(V > 10 * m * m * m)
             /\ ~(S > 6 * m)

\* DetectMovement: the average distance lies strictly between
\* movementThreshold = 0.08 and 0.6
DetectMovement(fs) ==
    IF Len(fs) < MinEmbeddings THEN FALSE
    ELSE LET es == extractEmbeddings(fs) IN
         IF Len(es) < MinEmbeddings THEN FALSE
         ELSE LET S == SumSeq(distances(es))
                  m == Len(es) - 1
              IN  100 * S > 80 * m /\ S < 6 * m

\* faulty variant: more than 70% of the frames must show a face
CheckFacePresence_Above(fs) ==
    IF Len(fs) = 0 THEN FALSE
    ELSE Cardinality({i \in 1..Len(fs) : fs[i].FaceFound}) * 100
            > PresencePercent * Len(fs)

\* CheckFacePresence: a face in at least 70% of the frames
CheckFacePresence(fs) ==
    IF Len(fs) = 0 THEN FALSE
    ELSE Cardinality({i \in 1..Len(fs) : fs[i].FaceFound}) * 100
            >= PresencePercent * Len(fs)

\* Detect3DGeometry
Detect3DGeometry(fs, geo) ==
    IF Len(fs) < GeometryMinFrames THEN FALSE
    ELSE IF geo = "few" THEN FALSE
    ELSE geo = "varied"

\* faulty variant: a batch too short to analyse does not ask for a retry
Insufficient_NoRetry ==
    [IsLive |-> FALSE, Score |-> ZeroScore, Checks |-> NoChecks,
     Reason |-> "insufficient frames", RequiresRetry |-> FALSE]

\* Detect, detector.go 880-891: the result of a batch too short to analyse
Insufficient ==
    [IsLive |-> FALSE, Score |-> ZeroScore, Checks |-> NoChecks,
     Reason |-> "insufficient frames", RequiresRetry |-> TRUE]

\* faulty variant: every check that ran has to pass
MeetsMinScore_Unanimous(num, den, cfg) ==
    num = den

\* faulty variant: a score equal to MinScore is not enough
MeetsMinScore_Strict(num, den, cfg) ==
    num * 100 > cfg.MinScore * den

\* result.Score >= d.config.MinScore, for the score num/den
MeetsMinScore(num, den, cfg) ==
    num * 100 >= cfg.MinScore * den

\* Detect, detector.go 893-975: the four checks, the score and the reason
Evaluate(fs, geo, cfg) ==
    LET is3D       == Detect3DGeometry(fs, geo)
        consistent == CheckConsistency(extractEmbeddings(fs))
        movement   == DetectMovement(fs)
        present    == CheckFacePresence(fs)
        checks     == ("3d_geometry" :> is3D)
                      @@ (IF cfg.RequireConsistency
                          THEN ("consistency" :> consistent) ELSE NoChecks)
                      @@ ("movement" :> movement)
                      @@ ("face_present" :> present)
        totalScore == (IF is3D THEN WeightGeometry ELSE 0)
                      + (IF cfg.RequireConsistency /\ consistent
                         THEN WeightConsistency ELSE 0)
                      + (IF movement THEN WeightMovement ELSE 0)
                      + (IF present THEN WeightPresence ELSE 0)
        totalWeight == WeightGeometry
                       + (IF cfg.RequireConsistency THEN WeightConsistency ELSE 0)
                       + WeightMovement + WeightPresence
        isLive     == MeetsMinScore(totalScore, totalWeight, cfg)
    IN  [IsLive |-> isLive,
         Score  |-> [num |-> totalScore, den |-> totalWeight],
         Checks |-> checks,
         Reason |->
            IF isLive THEN ""
            ELSE IF ~Checked(checks, "3d_geometry")
                 THEN "face lacks 3D depth/movement (possible 2D photo)"
            ELSE IF ~Checked(checks, "consistency")
                 THEN "inconsistent face data (possible photo attack)"
            ELSE IF ~Checked(checks, "movement")
                 THEN "no movement detected (possible static image)"
            ELSE IF ~Checked(checks, "face_present")
                 THEN "face not consistently visible"
            ELSE "liveness score below threshold",
         RequiresRetry |->
            /\ ~isLive
            /\ Checked(checks, "3d_geometry")
            /\ Checked(checks, "consistency")
            /\ Checked(checks, "movement")
            /\ ~Checked(checks, "face_present")]

\* faulty variant: the checks are run on every batch, however short
Detect_NoMinimum(fs, geo, cfg) ==
    Evaluate(fs, geo, cfg)

\* LivenessDetector.Detect
Detect(fs, geo, cfg) ==
    IF Len(fs) < MinDetectFrames THEN Insufficient
    ELSE Evaluate(fs, geo, cfg)

\* faulty variant: QuickCheck scores with the weights Detect gives its checks
QuickCheck_DetectWeights(fs) ==
    IF Len(fs) < QuickMinFrames THEN [IsLive |-> FALSE, Score |-> 0]
    ELSE LET es == extractEmbeddings(fs) IN
         IF Len(es) < QuickMinFrames THEN [IsLive |-> FALSE, Score |-> 0]
         ELSE LET score == (IF CheckConsistency(es) THEN WeightConsistency ELSE 0)
                           + (IF DetectMovement(fs) THEN WeightMovement ELSE 0)
                           + (IF CheckFacePresence(fs) THEN WeightPresence ELSE 0)
              IN  [IsLive |-> score >= QuickMinScore, Score |-> score]

\* LivenessDetector.QuickCheck: (isLive, score), the score in tenths
QuickCheck(fs) ==
    IF Len(fs) < QuickMinFrames THEN [IsLive |-> FALSE, Score |-> 0]
    ELSE LET es == extractEmbeddings(fs) IN
         IF Len(es) < QuickMinFrames THEN [IsLive |-> FALSE, Score |-> 0]
         ELSE LET score == (IF CheckConsistency(es)
                            THEN QuickWeightConsistency ELSE 0)
                           + (IF DetectMovement(fs) THEN QuickWeightMovement ELSE 0)
                           + (IF CheckFacePresence(fs)
                              THEN QuickWeightPresence ELSE 0)
              IN  [IsLive |-> score >= QuickMinScore, Score |-> score]

\* no call of the detector
DetectorIdle ==
    /\ config = DefaultConfig
    /\ batch = <<>>
    /\ landmarks = "few"
    /\ returned = <<>>

\* a detector built by NewDetector and the batch it is about to be given
InitDetector ==
    /\ config \in Configs
    /\ batch \in Batches
    /\ landmarks \in (IF Len(batch) >= GeometryMinFrames THEN Geometry ELSE {"few"})
    /\ returned = <<>>

\* detector.Detect(frames) is called and returns
CallDetect ==
    /\ UNCHANGED <<authVars, poolVars, storeVars, recVars>>
    /\ returned = <<>>
    /\ returned' = <<[call |-> "Detect",
                      result |-> Detect(batch, landmarks, config)]>>
    /\ UNCHANGED <<config, batch, landmarks>>

\* detector.QuickCheck(frames) is called and returns
CallQuickCheck ==
    /\ UNCHANGED <<authVars, poolVars, storeVars, recVars>>
    /\ returned = <<>>
    /\ returned' = <<[call |-> "QuickCheck", result |-> QuickCheck(batch)]>>
    /\ UNCHANGED <<config, batch, landmarks>>

NextDetect ==
    \/ CallDetect
    \/ CallQuickCheck

\* the batches CheckFacePresence is given on its own: it reads FaceFound only
PresenceBatches ==
    UNION {[1..n -> {NoFaceFrame, [FaceFound |-> TRUE, emb |-> 0]}] :
              n \in 0..MaxPresenceBatch}

\* a detector and the batch its presence check is about to be given
InitPresenceCheck ==
    /\ config = DefaultConfig
    /\ batch \in PresenceBatches
    /\ landmarks = "few"
    /\ returned = <<>>

\* detector.CheckFacePresence(frames) is called and returns
CallCheckFacePresence ==
    /\ UNCHANGED <<authVars, poolVars, storeVars, recVars>>
    /\ returned = <<>>
    /\ returned' = <<[call |-> "CheckFacePresence",
                      result |-> CheckFacePresence(batch)]>>
    /\ UNCHANGED <<config, batch, landmarks>>

NextPresence ==
    CallCheckFacePresence

(***************************************************************************)
(* recognition.DlibRecognizer.FindBestMatch.  As in the detector, an       *)
(* embedding is a point on a line, in tenths, and CompareFaces the         *)
(* absolute difference.                                                    *)
(***************************************************************************)
\* the tolerances SetTolerance is given: 0, the default 0.4, and 0.6
Tolerances == {0, Tolerance, 6}

Galleries == UNION {[1..n -> Positions] : n \in 0..MaxGallery}

\* CompareFaces / EuclideanDistance
CompareFaces(e1, e2) == Abs(e1 - e2)

RECURSIVE BestOf(_, _, _, _)
\* FindBestMatch, the loop over the gallery from its (i+1)-th element on:
\* best = (bestIdx, bestDist), replaced only by a strictly nearer element
BestOf(p, g, i, best) ==
    IF i >= Len(g) THEN best
    ELSE LET dist == CompareFaces(p, g[i + 1])
         IN  BestOf(p, g, i + 1,
                    IF dist < best.dist THEN [idx |-> i, dist |-> dist] ELSE best)

\* faulty variant: a distance equal to the tolerance counts as a match
DlibFindBestMatch_Inclusive(p, g, tol) ==
    IF Len(g) = 0 THEN [idx |-> -1, dist |-> MaxFloat64, matched |-> FALSE]
    ELSE LET best == BestOf(p, g, 0, [idx |-> 0, dist |-> MaxFloat64])
         IN  [idx |-> best.idx, dist |-> best.dist, matched |-> best.dist <= tol]

\* faulty variant: the empty gallery is not told apart
DlibFindBestMatch_NoSentinel(p, g, tol) ==
    LET best == BestOf(p, g, 0, [idx |-> 0, dist |-> MaxFloat64])
    IN  [idx |-> best.idx, dist |-> best.dist, matched |-> best.dist < tol]

\* DlibRecognizer.FindBestMatch: (index, distance, matched); indices from 0
DlibFindBestMatch(p, g, tol) ==
    IF Len(g) = 0 THEN [idx |-> -1, dist |-> MaxFloat64, matched |-> FALSE]
    ELSE LET best == BestOf(p, g, 0, [idx |-> 0, dist |-> MaxFloat64])
         IN  [idx |-> best.idx, dist |-> best.dist, matched |-> best.dist < tol]

\* no call of the recognizer
RecognizerIdle ==
    /\ tolerance = Tolerance
    /\ probeArg = 0
    /\ galleryArg = <<>>

\* a recognizer after NewRecognizer / SetTolerance and the arguments it is
\* about to be given
InitRecognizer ==
    /\ tolerance \in Tolerances
    /\ probeArg \in Positions
    /\ galleryArg \in Galleries

\* r.FindBestMatch(probe, gallery) is called and returns
CallFindBestMatch ==
    /\ UNCHANGED <<authVars, poolVars, storeVars>>
    /\ returned = <<>>
    /\ returned' = <<[call |-> "FindBestMatch",
                      result |-> DlibFindBestMatch(probeArg, galleryArg, tolerance)]>>
    /\ UNCHANGED <<config, batch, landmarks, recVars>>

NextMatch ==
    CallFindBestMatch

(***************************************************************************)
(* V4L2Camera called directly: StartStreaming, StopStreaming and ReadFrame *)
(* in any order.  `returned` is the log of the calls made so far: what     *)
(* each returned, the path ReadFrame took, and isStreaming before (was)    *)
(* and after (now) the call.                                               *)
(***************************************************************************)
\* the error StartStreaming returns; ok: ffmpeg's pipe and start succeed
StartStreamingErr(ok) ==
    IF ~isOpen THEN "ErrCameraNotOpen"
    ELSE IF isStreaming THEN "nil"
    ELSE IF ok THEN "nil" ELSE "error"

\* ReadFrame: the path taken and what it may return.  Capture refuses a
\* camera that is not open; either path fails when ffmpeg does.
ReadFramePath ==
    IF ~isStreaming
    THEN [via |-> "Capture",
          results |-> IF ~isOpen THEN {"ErrCameraNotOpen"} ELSE {"frame", "error"}]
    ELSE [via |-> "stream", results |-> {"frame", "error"}]

CameraCall(call, res, via) ==
    /\ Len(returned) < MaxCalls
    /\ returned' = Append(returned, [call |-> call, result |-> res, via |-> via,
                                     was |-> isStreaming, now |-> isStreaming'])
    /\ UNCHANGED <<isOpen, irAvailable, irEnabled, maxAttempts, envVars, callVars>>
    /\ UNCHANGED <<poolVars, storeVars, recVars>>
    /\ UNCHANGED <<config, batch, landmarks>>

CallStartStreaming ==
    \E ok \in BOOLEAN :
        /\ StartStreaming(ok)
        /\ CameraCall("StartStreaming", StartStreamingErr(ok), "")

CallStopStreaming ==
    /\ StopStreaming
    /\ CameraCall("StopStreaming", "nil", "")

CallReadFrame ==
    /\ UNCHANGED isStreaming
    /\ \E res \in ReadFramePath.results :
           CameraCall("ReadFrame", res, ReadFramePath.via)

NextCamera ==
    \/ CallStartStreaming
    \/ CallStopStreaming
    \/ CallReadFrame

(***************************************************************************)
(* The PAM entry point, cmd/facepass-pam main: the exit status of the      *)
(* process, computed from the AuthResult that auth.Authenticate returned.  *)
(***************************************************************************)
\* an *AuthError whose code main's switch does not list, and an error that
\* is not an *AuthError at all
OtherCode == "OTHER_CODE"
GenericError == "errors.New"

\* the AuthResults Authenticate (or a stand-in for it) may hand to main
AuthResults ==
    [Success : BOOLEAN,
     Code : {ErrCodeNoFace, ErrCodeMultipleFaces, ErrCodeLiveness,
             ErrCodeNotRecognized, ErrCodeCamera, ErrCodeTimeout,
             ErrCodeNotEnrolled, OtherCode, GenericError, NoError},
     Retry : BOOLEAN, Attempts : 0..MaxAttempts, Reason : {""},
     Confidence : {0}]

\* the status of each typed failure, main's switch on authErr.Code
CodeStatus(code) ==
    CASE code = ErrCodeNotEnrolled   -> 2
      [] code = ErrCodeTimeout       -> 2
      [] code = ErrCodeCamera        -> 3
      [] code = ErrCodeLiveness      -> 1
      [] code = ErrCodeNotRecognized -> 1
      [] code = ErrCodeNoFace        -> 2
      [] OTHER                       -> 1

\* faulty variant: the error is looked at before Success
ExitStatus_ErrorFirst(r) ==
    IF r.Code \notin {NoError, GenericError} THEN CodeStatus(r.Code)
    ELSE IF r.Success THEN 0 ELSE 1

\* main from `result := auth.Authenticate(username)` on: os.Exit(0) on
\* Success, else the status of the *AuthError's code, else 1
ExitStatus(r) ==
    IF r.Success THEN 0
    ELSE IF r.Code \notin {NoError, GenericError} THEN CodeStatus(r.Code)
    ELSE 1

\* main has called auth.Authenticate, which has returned some AuthResult
InitMain ==
    /\ isOpen = TRUE
    /\ isStreaming = FALSE
    /\ irAvailable = FALSE
    /\ irEnabled = FALSE
    /\ maxAttempts = MaxAttempts
    /\ callers = {1}
    /\ flaky = FALSE
    /\ repeat = FALSE
    /\ pc = [c \in Callers |-> IF c = 1 THEN "done" ELSE "idle"]
    /\ kind = [c \in Callers |-> "auth"]
    /\ \E r \in AuthResults :
           result = [c \in Callers |-> IF c = 1 THEN r ELSE NewResult(0)]
    /\ attempt = [c \in Callers |-> 0]
    /\ ctx = [c \in Callers |-> "none"]
    /\ galleryLen = [c \in Callers |-> 0]
    /\ frames = [c \in Callers |-> <<>>]
    /\ idx = [c \in Callers |-> 0]
    /\ readStreaming = [c \in Callers |-> FALSE]
    /\ enrolled = [c \in Callers |-> "ok"]
    /\ camTouched = [c \in Callers |-> FALSE]
    /\ liveBatch = [c \in Callers |-> <<>>]
    /\ liveEval = [c \in Callers |-> NoEval]
    /\ matchEval = [c \in Callers |-> NoEval]
    /\ lastUsedCalls = [c \in Callers |-> 0]
    /\ lastUsedErr = [c \in Callers |-> FALSE]
    /\ everLive = [c \in Callers |-> FALSE]
    /\ onlyCaptureErrs = [c \in Callers |-> TRUE]

\* main logs the result and calls os.Exit
MainExit ==
    /\ UNCHANGED <<authVars, poolVars, storeVars>>
    /\ returned = <<>>
    /\ returned' = <<[call |-> "main", result |-> ExitStatus(result[1])]>>
    /\ UNCHANGED <<config, batch, landmarks, recVars>>

NextExit ==
    MainExit

(***************************************************************************)
(* Specifications                                                          *)
(***************************************************************************)
\* the authenticator with nobody calling it
AuthIdle ==
    /\ InitAuth
    /\ irAvailable = FALSE
    /\ maxAttempts = 0
    /\ callers = {}
    /\ flaky = FALSE
    /\ repeat = FALSE

\* no process using the store, no user enrolled
StoreOff ==
    /\ StoreIdle
    /\ file = AbsentFile

Init ==
    /\ InitAuth
    /\ maxAttempts \in {0, MaxAttempts}
    /\ callers = {1}
    /\ flaky = TRUE
    /\ repeat = TRUE
    /\ InitPool
    /\ StoreOff
    /\ DetectorIdle
    /\ RecognizerIdle

\* one caller, after SetMaxAttempts with any int
InitAttempts ==
    /\ InitAuth
    /\ maxAttempts \in {-1, 0, MaxAttempts}
    /\ callers = {1}
    /\ flaky = TRUE
    /\ repeat = TRUE
    /\ InitPool
    /\ StoreOff
    /\ DetectorIdle
    /\ RecognizerIdle

InitFair ==
    /\ InitAuth
    /\ maxAttempts = 1
    /\ callers = {1}
    /\ flaky = TRUE
    /\ repeat = FALSE
    /\ InitPool
    /\ StoreOff
    /\ DetectorIdle
    /\ RecognizerIdle

InitConc ==
    /\ InitAuth
    /\ maxAttempts = 1
    /\ callers = Callers
    /\ flaky = FALSE
    /\ repeat = FALSE
    /\ InitPool
    /\ StoreOff
    /\ DetectorIdle
    /\ RecognizerIdle

\* cmdTest alone
InitCmdTest ==
    /\ AuthIdle
    /\ InitPool
    /\ StoreOff
    /\ DetectorIdle
    /\ RecognizerIdle

\* the processes using the store alone
InitProcs ==
    /\ AuthIdle
    /\ InitPool
    /\ InitStore
    /\ DetectorIdle
    /\ RecognizerIdle

\* the liveness detector alone
InitDetect ==
    /\ AuthIdle
    /\ InitPool
    /\ StoreOff
    /\ InitDetector
    /\ RecognizerIdle

\* the face-presence check alone
InitPresence ==
    /\ AuthIdle
    /\ InitPool
    /\ StoreOff
    /\ InitPresenceCheck
    /\ RecognizerIdle

\* the recognizer's FindBestMatch alone
InitMatch ==
    /\ AuthIdle
    /\ InitPool
    /\ StoreOff
    /\ DetectorIdle
    /\ InitRecognizer

\* a camera after NewCamera, opened or not, and nothing else running
InitCamera ==
    /\ isOpen \in BOOLEAN
    /\ isStreaming = FALSE
    /\ irAvailable = FALSE
    /\ irEnabled = FALSE
    /\ InitCalls
    /\ maxAttempts = 0
    /\ callers = {}
    /\ flaky = FALSE
    /\ repeat = FALSE
    /\ InitPool
    /\ StoreOff
    /\ DetectorIdle
    /\ RecognizerIdle

InitExit ==
    /\ InitMain
    /\ InitPool
    /\ StoreOff
    /\ DetectorIdle
    /\ RecognizerIdle

\* the steps the call itself takes are scheduled, and the timer fires; the
\* collaborators (ReadFrame, DetectSingleFace) owe no return
Fairness ==
    \A c \in Callers :
        /\ WF_vars(EnableIR(c))
        /\ WF_vars(StartStream(c))
        /\ WF_vars(DeadlineExpires(c))
        /\ WF_vars(AttemptBegin(c))
        /\ WF_vars(CaptureLoop(c))
        /\ WF_vars(Liveness(c))
        /\ WF_vars(Match(c))
        /\ WF_vars(StopStream(c))
        /\ WF_vars(DisableIR(c))

\* every goroutine of cmdTest that can take a step is scheduled, and
\* ReadFrame and DetectSingleFace return
PoolFairness ==
    /\ WF_vars(PoolStart)
    /\ WF_vars(CaptureFrame)
    /\ WF_vars(CaptureClose)
    /\ \A w \in Workers :
          /\ WF_vars(WorkerReceive(w))
          /\ WF_vars(WorkerProcess(w))
          /\ WF_vars(WorkerExit(w))
    /\ WF_vars(Closer)
    /\ WF_vars(Collect)
    /\ WF_vars(CollectDone)
    /\ WF_vars(SortResults)
    /\ WF_vars(RunDetect)

Spec == Init /\ [][NextAuth]_vars

SpecAttempts == InitAttempts /\ [][NextAuth]_vars

SpecFair == InitFair /\ [][NextAuth]_vars /\ Fairness

SpecConc == InitConc /\ [][NextAuth]_vars

SpecPool == InitCmdTest /\ [][NextPool]_vars

SpecPoolFair == InitCmdTest /\ [][NextPool]_vars /\ PoolFairness

SpecStore == InitProcs /\ [][NextStore]_vars

SpecDetect == InitDetect /\ [][NextDetect]_vars

SpecPresence == InitPresence /\ [][NextPresence]_vars

SpecMatch == InitMatch /\ [][NextMatch]_vars

SpecCamera == InitCamera /\ [][NextCamera]_vars

SpecExit == InitExit /\ [][NextExit]_vars

(***************************************************************************)
(* Properties of Authenticate / AuthenticateQuick                          *)
(***************************************************************************)
Terminal == {"stopStream", "disableIR", "done"}
Capturing == {"capture", "inRead", "inDetect"}
\* the positions of a call that has passed the enrollment check and not returned
InFlight == {"enableIR", "startStream", "attempt", "capture", "inRead", "inDetect",
             "liveness", "match", "stopStream", "disableIR"}

\* C1: a call reports Success only if, in the attempt it reports, the Liveness
\* Engine declared the batch live and the matcher then matched (distance below
\* tolerance) the probe averaged from that same batch; and no match is ever
\* evaluated on a batch that did not pass liveness.
C1_SuccessOnlyAfterLiveMatch ==
    \A c \in Callers :
        /\ result[c].Success =>
              /\ liveEval[c].att = result[c].Attempts
              /\ liveEval[c].IsLive
              /\ matchEval[c].att = result[c].Attempts
              /\ matchEval[c].matched
              /\ matchEval[c].dist < Tolerance
              /\ matchEval[c].onLiveBatch
        /\ matchEval[c] # NoEval => matchEval[c].onLiveBatch

\* a call of Authenticate succeeded on its second attempt
C1_Witness ==
    \E c \in Callers :
        /\ pc[c] = "done" /\ kind[c] = "auth"
        /\ result[c].Success /\ result[c].Attempts = 2

\* C2: once Detect answers not-live with RequiresRetry = FALSE in attempt k,
\* Authenticate is on its way out with LIVENESS_FAILED (not retryable), the
\* engine's reason and Attempts = k: no later attempt, capture, liveness
\* evaluation or match happens in that call.
C2_SpoofTerminatesAtOnce ==
    \A c \in Callers :
        (/\ kind[c] = "auth"
         /\ liveEval[c] # NoEval
         /\ ~liveEval[c].IsLive
         /\ ~liveEval[c].RequiresRetry)
        => /\ pc[c] \in Terminal
           /\ result[c] = [Success |-> FALSE, Code |-> ErrCodeLiveness, Retry |-> FALSE,
                           Attempts |-> liveEval[c].att, Reason |-> liveEval[c].Reason,
                           Confidence |-> 0]
           /\ matchEval[c] = NoEval
           /\ frames[c] = <<>>

\* a spoof verdict on attempt 1 of 2 ended the call
C2_Witness ==
    \E c \in Callers :
        /\ pc[c] = "done" /\ kind[c] = "auth" /\ maxAttempts = 2
        /\ liveEval[c] # NoEval /\ ~liveEval[c].IsLive /\ ~liveEval[c].RequiresRetry
        /\ result[c].Attempts = 1

\* C3: a call that got past the enrollment check has, when it returns, stopped
\* streaming and disabled the illuminator, whatever path it returned by.
C3_CleanupOnEveryExit ==
    \A c \in Callers :
        (pc[c] = "done" /\ enrolled[c] = "ok") => (~isStreaming /\ ~irEnabled)

\* a call on a camera with an illuminator returned by the timeout path
C3_Witness ==
    \E c \in Callers :
        /\ pc[c] = "done" /\ enrolled[c] = "ok" /\ irAvailable
        /\ result[c].Code = ErrCodeTimeout

\* C4: a call whose deadline has passed does not stay inside a blocking point
\* (a frame read, an extraction): it leaves it even if the collaborator never
\* returns.
C4_NeverBlockedPastDeadline ==
    \A c \in Callers : (ctx[c] = "done") ~> (pc[c] \notin {"inRead", "inDetect"})

\* C5: the deadline is never re-armed within a call, and once it has passed
\* while the frames of an attempt are being captured (or before the attempt
\* begins) the capture can only end in a TIMEOUT result that is not retryable.
C5_ExpiryDuringCaptureIsTimeout ==
    [][\A c \in Callers :
          (kind[c] = "auth" /\ ctx[c] = "done")
          => /\ ctx'[c] # "running" \/ pc[c] \in {"idle", "done"}
             /\ (pc[c] \in Capturing \cup {"attempt"} /\ attempt[c] <= maxAttempts)
                => \/ pc'[c] \in Capturing
                   \/ /\ pc'[c] = "stopStream"
                      /\ result'[c].Code = ErrCodeTimeout
                      /\ ~result'[c].Retry]_vars

\* C6: a call for a user the store does not know ends at once with
\* NOT_ENROLLED (not retryable, no success) and without any camera call.
C6_NotEnrolledTouchesNoCamera ==
    \A c \in Callers :
        (kind[c] = "auth" /\ enrolled[c] = "missing")
        => /\ pc[c] = "done"
           /\ result[c] = WithError(NewResult(0), ErrCodeNotEnrolled, FALSE, "user not enrolled")
           /\ ~camTouched[c]
           /\ ~isStreaming /\ ~irEnabled

\* Authenticate returned for a user that is not enrolled
C6_Witness ==
    \E c \in Callers :
        kind[c] = "auth" /\ enrolled[c] = "missing" /\ pc[c] = "done"

\* C7: at most one call is past the enrollment check at a time, and no call
\* runs its cleanup while another one is capturing.
C7_ExclusiveCamera ==
    /\ Cardinality({c \in Callers : pc[c] \in InFlight}) <= 1
    /\ \A c1, c2 \in Callers :
          ~(c1 # c2 /\ pc[c1] \in {"stopStream", "disableIR"} /\ pc[c2] \in Capturing)

\* C11: an Authenticate call that got past the enrollment check and ended
\* neither in success nor in a terminal outcome (TIMEOUT, LIVENESS_FAILED that is
\* not retryable) ended in NOT_RECOGNIZED, not retryable, with Attempts equal to
\* maxAttempts.
C11_ExhaustionIsNotRecognized ==
    \A c \in Callers :
        (/\ kind[c] = "auth" /\ enrolled[c] = "ok" /\ pc[c] \in Terminal
         /\ ~result[c].Success
         /\ result[c].Code # ErrCodeTimeout
         /\ ~(result[c].Code = ErrCodeLiveness /\ ~result[c].Retry))
        => result[c] = [Success |-> FALSE, Code |-> ErrCodeNotRecognized, Retry |-> FALSE,
                        Attempts |-> maxAttempts,
                        Reason |-> "face not recognized after maximum attempts",
                        Confidence |-> 0]

\* two attempts were used up, the second one passed liveness and matched nothing
C11_Witness ==
    \E c \in Callers :
        /\ kind[c] = "auth" /\ pc[c] = "done" /\ maxAttempts = 2
        /\ result[c].Code = ErrCodeNotRecognized
        /\ matchEval[c] # NoEval /\ matchEval[c].att = 2 /\ ~matchEval[c].matched

\* C12: an Authenticate call all of whose attempts ended in a capture error
\* ends in NOT_RECOGNIZED with Attempts = maxAttempts, or in TIMEOUT, and in
\* NOT_RECOGNIZED if the deadline has not passed; it never ends in CAMERA_ERROR.
C12_CaptureErrorsExhaustAttempts ==
    \A c \in Callers :
        (kind[c] = "auth" /\ enrolled[c] = "ok") =>
           /\ result[c].Code # ErrCodeCamera
           /\ (pc[c] \in Terminal /\ onlyCaptureErrs[c]) =>
                 /\ ~result[c].Success /\ ~result[c].Retry
                 /\ result[c].Code \in {ErrCodeNotRecognized, ErrCodeTimeout}
                 /\ result[c].Code = ErrCodeNotRecognized => result[c].Attempts = maxAttempts
           /\ (pc[c] = "stopStream" /\ onlyCaptureErrs[c] /\ ctx[c] = "running") =>
                 result[c].Code = ErrCodeNotRecognized

\* both attempts of a call read frames and ended in a capture error
C12_Witness ==
    \E c \in Callers :
        /\ kind[c] = "auth" /\ pc[c] = "done" /\ maxAttempts = 2
        /\ onlyCaptureErrs[c] /\ camTouched[c]
        /\ result[c].Code = ErrCodeNotRecognized /\ result[c].Attempts = 2

\* C13: the result of an Authenticate call is exactly one outcome: success with
\* no error, or no success with one of NOT_ENROLLED, TIMEOUT, LIVENESS_FAILED,
\* NOT_RECOGNIZED; nothing of an attempt that was retried shows in it.
C13_ResultIsOneOutcome ==
    \A c \in Callers :
        (kind[c] = "auth" /\ pc[c] \in Terminal) =>
           \/ result[c].Success /\ result[c].Code = NoError
           \/ /\ ~result[c].Success
              /\ result[c].Code \in {ErrCodeNotEnrolled, ErrCodeTimeout, ErrCodeLiveness,
                                      ErrCodeNotRecognized}

\* the error codes Authenticate never builds
AuthNeverSurfacesTransientCodes ==
    \A c \in Callers :
        kind[c] = "auth" =>
            result[c].Code \notin {ErrCodeCamera, ErrCodeNoFace, ErrCodeMultipleFaces}

\* C14: an Authenticate call (with at least one attempt allowed) ends in
\* NOT_RECOGNIZED only if some attempt of it passed the liveness check.
C14_NotRecognizedOnlyAfterLive ==
    \A c \in Callers :
        (/\ kind[c] = "auth" /\ pc[c] \in Terminal /\ maxAttempts >= 1
         /\ result[c].Code = ErrCodeNotRecognized)
        => everLive[c]

\* C15: when AuthenticateQuick finds its deadline passed before the next frame
\* of its batch, the call leaves the capture with TIMEOUT, not retryable.
C15_QuickExpiryIsTimeout ==
    [][\A c \in Callers :
          (/\ kind[c] = "quick" /\ pc[c] = "capture" /\ idx[c] < Count(c)
           /\ ctx[c] = "done" /\ pc'[c] # pc[c])
          => /\ pc'[c] = "stopStream"
             /\ result'[c].Code = ErrCodeTimeout
             /\ ~result'[c].Retry]_vars

\* C16: once the matcher has reported a match at distance d, Authenticate is on
\* its way out with Success, Confidence = 1 - d and exactly one UpdateLastUsed
\* call made, whether or not that call failed; a call without success has made
\* no UpdateLastUsed call.
C16_MatchGivesConfidenceAndOneUpdate ==
    \A c \in Callers :
        kind[c] = "auth" =>
           /\ (matchEval[c] # NoEval /\ matchEval[c].matched) =>
                 /\ pc[c] \in Terminal
                 /\ result[c].Success
                 /\ result[c].Confidence = One - matchEval[c].dist
                 /\ lastUsedCalls[c] = 1
           /\ result[c].Success => (matchEval[c] # NoEval /\ matchEval[c].matched)
           /\ ~result[c].Success => (lastUsedCalls[c] = 0 /\ ~lastUsedErr[c])

\* a call succeeded at distance 0.3 although its UpdateLastUsed failed
C16_Witness ==
    \E c \in Callers :
        /\ kind[c] = "auth" /\ pc[c] = "done"
        /\ result[c].Success /\ result[c].Confidence = 7
        /\ matchEval[c].dist = 3
        /\ lastUsedCalls[c] = 1 /\ lastUsedErr[c]

\* C17: the frame buffer, the batch the Liveness Engine judged and the batch
\* the probe is averaged from hold only frames captured in the current attempt;
\* an attempt begins with an empty buffer.
C17_NoCrossAttemptMixing ==
    \A c \in Callers :
        /\ \A i \in 1..Len(frames[c]) : frames[c][i].att = attempt[c]
        /\ \A i \in 1..Len(liveBatch[c]) : liveBatch[c][i].att = attempt[c]
        /\ pc[c] = "attempt" => frames[c] = <<>>
        /\ pc[c] = "match" =>
              /\ liveEval[c].att = attempt[c]
              /\ liveEval[c].n = Len(frames[c])
              /\ liveBatch[c] = frames[c]

\* attempt 2 is capturing after attempt 1 failed liveness retryably on a full batch
C17_Witness ==
    \E c \in Callers :
        /\ kind[c] = "auth" /\ attempt[c] = 2 /\ Len(frames[c]) >= 2
        /\ result[c].Code = ErrCodeLiveness

\* C18: a frame in which no face was found carries an embedding of length
\* zero, and only frames with a face enter the probe average.
C18_NoFaceCarriesNoEmbedding ==
    \A c \in Callers :
        /\ \A i \in 1..Len(frames[c]) :
               ~frames[c][i].face => frames[c][i].embLen = 0
        /\ \A i \in 1..Len(FaceFrames(frames[c])) :
               FaceFrames(frames[c])[i].face

\* C19: the emitter is switched on only by the first step of Authenticate,
\* before any frame of the call is read, and only when the camera has one;
\* that step goes on to StartStreaming whether or not the emitter came on;
\* the emitter is switched off only by the deferred call that ends
\* Authenticate, so it keeps its state through every attempt; between calls
\* it is off.
C19_IlluminationSpansTheCall ==
    /\ [](\A c \in callers :
            /\ pc[c] \in {"idle", "done", "crashed"} => ~irEnabled
            /\ pc[c] = "enableIR" => frames[c] = <<>> /\ ~camTouched[c])
    /\ [][\A c \in callers :
            /\ irEnabled' # irEnabled =>
                  \/ pc[c] = "enableIR" /\ irAvailable /\ irEnabled'
                  \/ pc[c] = "disableIR" /\ ~irEnabled'
            /\ pc[c] = "enableIR" /\ pc'[c] # pc[c] => pc'[c] = "startStream"
            /\ pc[c] = "disableIR" /\ pc'[c] # pc[c] =>
                  pc'[c] \in {"done", "crashed"}]_vars

\* the emitter is on while a frame of the second attempt is being read
C19_Witness ==
    \E c \in callers :
        /\ irAvailable /\ irEnabled
        /\ kind[c] = "auth" /\ pc[c] = "inRead" /\ attempt[c] = 2
        /\ Len(frames[c]) > 0

\* C20: Detect answers a batch of fewer than 3 frames, the empty one too,
\* with not live, "insufficient frames" and RequiresRetry, records no check
\* and leaves the score at 0.
C20_ShortBatchIsInsufficient ==
    \A i \in 1..Len(returned) :
        returned[i].call = "Detect" /\ Len(batch) < 3 =>
            /\ ~returned[i].result.IsLive
            /\ returned[i].result.Reason = "insufficient frames"
            /\ returned[i].result.RequiresRetry
            /\ DOMAIN returned[i].result.Checks = {}
            /\ returned[i].result.Score.num = 0

\* Detect has answered a batch of two frames that both show a face
C20_Witness ==
    /\ returned # <<>>
    /\ returned[1].call = "Detect"
    /\ Len(batch) = 2
    /\ \A i \in 1..Len(batch) : batch[i].FaceFound

\* C21: on a batch of at least 3 frames the checks Detect evaluates are
\* exactly those the configuration enables (geometry under Require3D,
\* consistency under RequireConsistency, movement and presence always), and
\* the score is the weight of the evaluated checks that passed over the
\* weight of the evaluated checks.
C21_ScoreOverEnabledChecks ==
    \A i \in 1..Len(returned) :
        returned[i].call = "Detect" /\ Len(batch) >= 3 =>
            LET r       == returned[i].result
                weight  == ("3d_geometry" :> 3) @@ ("consistency" :> 3)
                           @@ ("movement" :> 2) @@ ("face_present" :> 2)
                enabled == {"movement", "face_present"}
                           \cup (IF config.Require3D THEN {"3d_geometry"} ELSE {})
                           \cup (IF config.RequireConsistency
                                 THEN {"consistency"} ELSE {})
                passed  == {n \in DOMAIN r.Checks : r.Checks[n]}
                total(S) == SumSeq([k \in 1..4 |->
                               LET n == <<"3d_geometry", "consistency",
                                          "movement", "face_present">>[k]
                               IN  IF n \in S THEN weight[n] ELSE 0])
            IN  /\ DOMAIN r.Checks = enabled
                /\ r.Score.num * total(enabled) = total(passed) * r.Score.den

\* C22: on a batch of at least 3 frames Detect answers live exactly when its
\* score is at least the configured MinScore, a score equal to it included.
C22_LiveIffScoreAtLeastMinScore ==
    \A i \in 1..Len(returned) :
        returned[i].call = "Detect" /\ Len(batch) >= 3 =>
            LET r == returned[i].result
            IN  r.IsLive <=> r.Score.num * 100 >= config.MinScore * r.Score.den

\* Detect has answered live with a score equal to MinScore
C22_Witness ==
    /\ returned # <<>>
    /\ returned[1].call = "Detect"
    /\ Len(batch) >= 3
    /\ returned[1].result.IsLive
    /\ returned[1].result.Score.num * 100
          = config.MinScore * returned[1].result.Score.den

\* C23: a not-live answer of Detect on a batch of at least 3 frames names the
\* first check, in the order geometry, consistency, movement, presence, that
\* was evaluated and failed, and gives the generic reason only when no check
\* failed.
C23_ReasonNamesFirstFailedCheck ==
    \A i \in 1..Len(returned) :
        returned[i].call = "Detect" /\ Len(batch) >= 3
            /\ ~returned[i].result.IsLive =>
            LET r == returned[i].result
                failed(n) == n \in DOMAIN r.Checks /\ ~r.Checks[n]
            IN  r.Reason =
                  IF failed("3d_geometry")
                  THEN "face lacks 3D depth/movement (possible 2D photo)"
                  ELSE IF failed("consistency")
                  THEN "inconsistent face data (possible photo attack)"
                  ELSE IF failed("movement")
                  THEN "no movement detected (possible static image)"
                  ELSE IF failed("face_present")
                  THEN "face not consistently visible"
                  ELSE "liveness score below threshold"

\* C24: Detect asks for a retry exactly when it reports "insufficient frames"
\* or the face-presence failure; every other not-live answer and every live
\* answer has RequiresRetry false.
C24_RetryOnlyForShortBatchOrPresence ==
    \A i \in 1..Len(returned) :
        returned[i].call = "Detect" =>
            LET r == returned[i].result
            IN  /\ r.RequiresRetry <=>
                      r.Reason \in {"insufficient frames",
                                    "face not consistently visible"}
                /\ r.IsLive => ~r.RequiresRetry /\ r.Reason = ""
                /\ r.Reason = "insufficient frames" <=> Len(batch) < 3

\* Detect has reported the face-presence failure and asks for a retry
C24_Witness ==
    /\ returned # <<>>
    /\ returned[1].call = "Detect"
    /\ returned[1].result.Reason = "face not consistently visible"
    /\ returned[1].result.RequiresRetry
    /\ returned[1].result.Checks["3d_geometry"]

\* C25: CheckFacePresence passes exactly when the batch is not empty and at
\* least 70% of its frames show a face: 7 of 10 pass, 2 of 5 fail, the empty
\* batch fails.
C25_PresenceIsSeventyPercent ==
    \A i \in 1..Len(returned) :
        returned[i].call = "CheckFacePresence" =>
            LET n == Len(batch)
                faceCount == Cardinality({k \in 1..n : batch[k].FaceFound})
            IN  /\ returned[i].result <=> (n > 0 /\ 10 * faceCount >= 7 * n)
                /\ n = 10 /\ faceCount = 7 => returned[i].result
                /\ n = 5 /\ faceCount = 2 => ~returned[i].result
                /\ n = 0 => ~returned[i].result

\* the check has passed a batch of 10 frames of which exactly 7 show a face
C25_Witness ==
    /\ returned # <<>>
    /\ returned[1].call = "CheckFacePresence"
    /\ returned[1].result
    /\ Len(batch) = 10
    /\ Cardinality({k \in 1..Len(batch) : batch[k].FaceFound}) = 7

\* C26: QuickCheck answers live exactly when 0.4 for consistency, 0.3 for
\* movement and 0.3 for presence, summed over the checks that pass, reach 0.6;
\* its answer does not depend on the landmarks; a batch of 5 frames with
\* movement and presence is live with a score of at least 0.6.
C26_QuickCheckWeights ==
    \A i \in 1..Len(returned) :
        returned[i].call = "QuickCheck" =>
            LET r == returned[i].result
                passed == (IF CheckConsistency(extractEmbeddings(batch))
                           THEN 4 ELSE 0)
                          + (IF DetectMovement(batch) THEN 3 ELSE 0)
                          + (IF CheckFacePresence(batch) THEN 3 ELSE 0)
            IN  /\ r.IsLive <=> passed >= 6
                /\ r.Score \in {0, passed}
                /\ r.IsLive => r.Score = passed
                /\ Len(batch) = 5 /\ DetectMovement(batch)
                      /\ CheckFacePresence(batch) =>
                      r.IsLive /\ r.Score >= 6

\* QuickCheck has declared live a batch of 5 frames on movement and presence
\* alone
C26_Witness ==
    /\ returned # <<>>
    /\ returned[1].call = "QuickCheck"
    /\ Len(batch) = 5
    /\ DetectMovement(batch) /\ CheckFacePresence(batch)
    /\ ~CheckConsistency(extractEmbeddings(batch))
    /\ returned[1].result = [IsLive |-> TRUE, Score |-> 6]

\* C27: AuthenticateQuick reports Attempts = 1 and makes one pass: after
\* QuickCheck it never captures again and after the match it returns.  A user
\* missing or unloadable gives NOT_ENROLLED, not retryable, with the camera
\* untouched; a failed capture CAMERA_ERROR, retryable; a not-live QuickCheck
\* LIVENESS_FAILED, retryable; a batch without a face embedding NO_FACE,
\* retryable; no match NOT_RECOGNIZED, not retryable; a match success with
\* confidence 1 - distance.
C27_QuickOutcomes ==
    /\ [](\A c \in callers :
            kind[c] = "quick" =>
              /\ result[c].Attempts = 1
              /\ enrolled[c] # "ok" =>
                    /\ pc[c] = "done" /\ ~camTouched[c]
                    /\ ~result[c].Success /\ ~result[c].Retry
                    /\ result[c].Code = ErrCodeNotEnrolled
              /\ pc[c] \in {"stopStream", "done"} =>
                    /\ result[c].Success <=> result[c].Code = NoError
                    /\ result[c].Code \in {NoError, ErrCodeNotEnrolled, ErrCodeCamera,
                                           ErrCodeLiveness, ErrCodeNoFace,
                                           ErrCodeNotRecognized}
                    /\ result[c].Retry <=> result[c].Code \in
                          {ErrCodeCamera, ErrCodeLiveness, ErrCodeNoFace}
                    /\ result[c].Code = ErrCodeNotEnrolled => enrolled[c] # "ok"
                    /\ result[c].Code = ErrCodeCamera =>
                          liveEval[c] = NoEval /\ matchEval[c] = NoEval
                    /\ result[c].Code = ErrCodeLiveness =>
                          /\ liveEval[c] # NoEval /\ ~liveEval[c].IsLive
                          /\ matchEval[c] = NoEval
                    /\ result[c].Code = ErrCodeNoFace =>
                          /\ liveEval[c] # NoEval /\ liveEval[c].IsLive
                          /\ matchEval[c] = NoEval
                    /\ result[c].Code = ErrCodeNotRecognized =>
                          matchEval[c] # NoEval /\ ~matchEval[c].matched
                    /\ result[c].Success =>
                          /\ matchEval[c] # NoEval /\ matchEval[c].matched
                          /\ result[c].Confidence = One - matchEval[c].dist)
    /\ [][\A c \in callers :
            kind[c] = "quick" /\ kind'[c] = "quick" /\ pc'[c] # pc[c] =>
              /\ pc'[c] # "attempt"
              /\ pc[c] = "liveness" => pc'[c] \in {"match", "stopStream"}
              /\ pc[c] = "match" => pc'[c] = "stopStream"
              /\ pc[c] = "capture" /\ pc'[c] = "stopStream" =>
                    result'[c].Code = ErrCodeCamera
              /\ pc[c] = "liveness" /\ pc'[c] = "stopStream" =>
                    result'[c].Code = ErrCodeLiveness
              /\ pc[c] = "match" =>
                    result'[c].Code =
                       IF FaceFrames(frames[c]) = <<>> THEN ErrCodeNoFace
                       ELSE IF matchEval'[c].matched THEN NoError
                       ELSE ErrCodeNotRecognized]_vars

\* AuthenticateQuick has returned success on a match at a distance above 0
C27_Witness ==
    \E c \in callers :
        /\ kind[c] = "quick" /\ pc[c] = "done"
        /\ result[c].Success /\ result[c].Attempts = 1
        /\ matchEval[c].matched /\ matchEval[c].dist > 0
        /\ result[c].Confidence = One - matchEval[c].dist

\* C28: AuthenticateQuick makes the collaborator calls Authenticate makes
\* around its attempt: once the user's data is loaded its next step is the
\* enabling of the infrared emitter, and a call that matched has updated the
\* user's last-used timestamp once.
C28_QuickSameInteractions ==
    /\ [](\A c \in callers :
            kind[c] = "quick" /\ pc[c] \in Terminal /\ result[c].Success =>
                lastUsedCalls[c] = 1)
    /\ [][\A c \in callers :
            kind'[c] = "quick" /\ pc[c] \in {"idle", "done"}
               /\ pc'[c] # pc[c] /\ enrolled'[c] = "ok" =>
                pc'[c] = "enableIR"]_vars

\* C29: over an empty gallery FindBestMatch returns index -1, the largest
\* float64 as distance and matched = false, whatever the probe and the
\* tolerance are.
C29_EmptyGalleryIsNoMatch ==
    \A i \in 1..Len(returned) :
        returned[i].call = "FindBestMatch" /\ galleryArg = <<>> =>
            /\ returned[i].result.idx = -1
            /\ returned[i].result.dist = MaxFloat64
            /\ ~returned[i].result.matched

\* FindBestMatch has answered for an empty gallery under the widest tolerance
C29_Witness ==
    /\ returned # <<>>
    /\ returned[1].call = "FindBestMatch"
    /\ galleryArg = <<>>
    /\ tolerance = 6 /\ probeArg # 0

\* C30: on a batch of at least 5 frames that all show a face with one and the
\* same embedding, the consistency check and the movement check fail, and the
\* reason Detect gives is not "insufficient frames".
C30_IdenticalEmbeddingsFailChecks ==
    \A i \in 1..Len(returned) :
        (/\ returned[i].call = "Detect"
         /\ Len(batch) >= 5
         /\ \A k \in 1..Len(batch) :
               batch[k].FaceFound /\ batch[k].emb = batch[1].emb) =>
            LET r == returned[i].result
            IN  /\ ~CheckConsistency(extractEmbeddings(batch))
                /\ ~DetectMovement(batch)
                /\ ~r.Checks["movement"]
                /\ "consistency" \in DOMAIN r.Checks => ~r.Checks["consistency"]
                /\ r.Reason # "insufficient frames"

\* Detect has rejected 5 identical frames with varied landmarks for their
\* consistency
C30_Witness ==
    /\ returned # <<>>
    /\ returned[1].call = "Detect"
    /\ Len(batch) = 5
    /\ \A k \in 1..Len(batch) : batch[k].FaceFound /\ batch[k].emb = batch[1].emb
    /\ landmarks = "varied"
    /\ ~returned[1].result.IsLive
    /\ returned[1].result.Reason = "inconsistent face data (possible photo attack)"

\* C33: every result Authenticate returns with Success = true carries a nil
\* error and no failure reason, also when an earlier attempt of the call
\* failed liveness retryably; every result with Success = false carries a
\* structured error.
C33_SuccessCarriesNoError ==
    \A c \in Callers :
        (kind[c] = "auth" /\ pc[c] \in Terminal) =>
            /\ result[c].Success =>
                  result[c].Code = NoError /\ result[c].Reason = ""
            /\ ~result[c].Success => result[c].Code # NoError

\* the half that holds: a returned failure always carries a structured error
FailureCarriesError ==
    \A c \in Callers :
        (kind[c] = "auth" /\ pc[c] \in Terminal /\ ~result[c].Success) =>
            result[c].Code # NoError

\* the step of caller c starts the capture batch of an attempt
BatchStarts(c) == kind[c] = "auth" /\ pc[c] = "attempt" /\ pc'[c] = "capture"
\* the step of caller c leaves the body of Authenticate
BodyReturns(c) ==
    kind[c] = "auth" /\ pc[c] \in InFlight \ Terminal /\ pc'[c] = "stopStream"
\* the step of caller c ends Authenticate at the enrollment check
EnrollmentEnds(c) == pc[c] \in {"idle", "done"} /\ pc'[c] = "done" /\ kind'[c] = "auth"

\* the capture batches of one call are numbered 1, 2, ... up to maxAttempts
\* at most, and Attempts counts them; a call that ends at the enrollment
\* check reports 0, one that ends during attempt k reports k
AttemptsCounted(c) ==
    /\ BatchStarts(c) =>
          /\ attempt[c] \in 1..maxAttempts
          /\ result[c].Attempts = attempt[c] - 1
          /\ result'[c].Attempts = attempt[c]
    /\ (BodyReturns(c) /\ attempt[c] <= maxAttempts) =>
          result'[c].Attempts = attempt[c]
    /\ EnrollmentEnds(c) => result'[c].Attempts = 0

\* the step of caller c leaves the attempt loop by exhaustion
LoopExhausted(c) == BodyReturns(c) /\ attempt[c] > maxAttempts

\* C34: in every Authenticate call the number of capture batches started
\* never exceeds maxAttempts and the returned Attempts is the index of the
\* last attempt begun: 0 at the enrollment check, k during attempt k, and
\* maxAttempts on loop exhaustion.
C34_AttemptsIsLastAttemptBegun ==
    [][\A c \in Callers :
          /\ AttemptsCounted(c)
          /\ LoopExhausted(c) => result'[c].Attempts = maxAttempts]_vars

\* C34, amended: as above, with max(maxAttempts, 0) for maxAttempts: on loop
\* exhaustion Attempts is maxAttempts if that is positive and 0 otherwise,
\* and with maxAttempts <= 0 no capture batch is started.
C34_AttemptsIsLastAttemptBegunOrZero ==
    [][\A c \in Callers :
          /\ AttemptsCounted(c)
          /\ LoopExhausted(c) =>
                /\ result'[c].Attempts = IF maxAttempts > 0 THEN maxAttempts ELSE 0
                /\ result'[c].Code = ErrCodeNotRecognized]_vars

\* a call made after SetMaxAttempts(-1) has returned NOT_RECOGNIZED with
\* Attempts 0
C34_Witness ==
    \E c \in Callers :
        /\ kind[c] = "auth" /\ pc[c] = "done" /\ maxAttempts < 0
        /\ result[c].Code = ErrCodeNotRecognized /\ result[c].Attempts = 0

\* the checks of a Detect result that passed
Passed(r) == {n \in DOMAIN r.Checks : r.Checks[n]}

\* Detect with the default configuration has answered on a batch of at
\* least 3 frames
DefaultDetectReturned ==
    /\ config = DefaultConfig
    /\ Len(batch) >= MinDetectFrames
    /\ returned # <<>>
    /\ returned[1].call = "Detect"

\* C36: with the default configuration Detect answers live on a batch of at
\* least 3 frames exactly when at least three of the four checks (geometry,
\* consistency, movement, presence) passed; no check, 3D geometry
\* included, has to pass for a live answer.
C36_LiveIffThreeOfFourChecks ==
    DefaultDetectReturned =>
        LET r == returned[1].result
        IN  /\ DOMAIN r.Checks = {"3d_geometry", "consistency", "movement",
                                  "face_present"}
            /\ r.IsLive <=> Cardinality(Passed(r)) >= 3

\* a live answer although the 3D geometry check failed
C36_Witness ==
    /\ DefaultDetectReturned
    /\ returned[1].result.IsLive
    /\ ~returned[1].result.Checks["3d_geometry"]

\* a live answer with check n failed
LiveWithout(n) ==
    /\ DefaultDetectReturned
    /\ returned[1].result.IsLive
    /\ ~returned[1].result.Checks[n]

\* the batch of caller c is in the hands of the Liveness Engine
BatchEvaluated(c) == pc[c] = "liveness"

\* the batch handed over: 5 to count frames of the current attempt, in
\* capture order, after the capture loop has run through all its iterations
BatchIsComplete ==
    \A c \in Callers :
        BatchEvaluated(c) =>
            /\ Len(frames[c]) \in MinFrames..Count(c)
            /\ idx[c] = Count(c)
            /\ \A i \in 1..Len(frames[c]) :
                   /\ frames[c][i].idx \in 0..(Count(c) - 1)
                   /\ frames[c][i].att = attempt[c]
            /\ \A i \in 1..(Len(frames[c]) - 1) :
                   frames[c][i].idx < frames[c][i + 1].idx

\* how the batch of caller c grows: a read that failed adds nothing, a read
\* that succeeded adds its frame, with or without a face, and nothing else
\* adds a frame
BatchHoldsSuccessfulReads(c) ==
    /\ (pc[c] = "inRead" /\ pc'[c] = "capture") =>
          frames'[c] = frames[c] /\ idx'[c] = idx[c] + 1
    /\ (pc[c] = "inRead" /\ pc'[c] = "inDetect") =>
          frames'[c] = frames[c] /\ idx'[c] = idx[c]
    /\ (pc[c] = "inDetect" /\ pc'[c] = "capture") =>
          /\ \E faceFound \in BOOLEAN :
                frames'[c] = Append(frames[c], LiveFrame(attempt[c], idx[c], faceFound))
          /\ idx'[c] = idx[c] + 1
    /\ frames'[c] # frames[c] =>
          \/ pc[c] = "inDetect"
          \/ frames'[c] = <<>>
    /\ (~BatchEvaluated(c) /\ BatchEvaluated(c)') =>
          pc[c] = "capture" /\ idx[c] = Count(c) /\ frames'[c] = frames[c]

\* C37: every batch Authenticate or AuthenticateQuick hands to the Liveness
\* Engine holds between 5 and the requested count frames, in capture order,
\* and exactly the frames whose read succeeded (a failed read is skipped, a
\* frame without a face is kept); a batch of fewer than 5 frames, or one cut
\* short by the deadline, is never evaluated.
C37_BatchIsTheSuccessfulReads ==
    /\ []BatchIsComplete
    /\ [][\A c \in Callers : BatchHoldsSuccessfulReads(c)]_vars

\* a batch under evaluation that lost a frame to a failed read and holds a
\* frame without a face
C37_Witness ==
    \E c \in Callers :
        /\ BatchEvaluated(c)
        /\ Len(frames[c]) < Count(c)
        /\ \E i \in 1..Len(frames[c]) : ~frames[c][i].face

\* C38: Authenticate never returns a LIVENESS_FAILED error marked retryable:
\* a retryable liveness failure leads to another attempt or to the final
\* NOT_RECOGNIZED or TIMEOUT, so the LIVENESS_FAILED errors that reach the
\* caller are the non-retryable ones.
C38_NoRetryableLivenessReturned ==
    \A c \in Callers :
        (kind[c] = "auth" /\ pc[c] \in Terminal) =>
            ~(result[c].Code = ErrCodeLiveness /\ result[c].Retry)

\* what holds: a failed call that reports LIVENESS_FAILED reports it as final
FailedLivenessIsFinal ==
    \A c \in Callers :
        (kind[c] = "auth" /\ pc[c] \in Terminal /\ ~result[c].Success
         /\ result[c].Code = ErrCodeLiveness) => ~result[c].Retry

\* the check a failure reason of Detect speaks of
ReasonCheck(reason) ==
    CASE reason = "face lacks 3D depth/movement (possible 2D photo)" -> "3d_geometry"
      [] reason = "inconsistent face data (possible photo attack)"   -> "consistency"
      [] reason = "no movement detected (possible static image)"     -> "movement"
      [] reason = "face not consistently visible"                    -> "face_present"
      [] OTHER                                                       -> "none"

\* C39: the failure reason Detect reports names a check that was evaluated
\* and failed; with the consistency check disabled by configuration a
\* not-live result never carries the consistency reason.
C39_ReasonNamesAnEvaluatedCheck ==
    (returned # <<>> /\ returned[1].call = "Detect"
     /\ Len(batch) >= MinDetectFrames /\ ~returned[1].result.IsLive) =>
        LET r == returned[1].result
            n == ReasonCheck(r.Reason)
        IN  /\ n # "none" => n \in DOMAIN r.Checks /\ ~r.Checks[n]
            /\ ~config.RequireConsistency => n # "consistency"

\* what holds: with the consistency check enabled the reason names a check
\* that ran and failed
ReasonNamesAFailedCheckWhenAllRun ==
    (returned # <<>> /\ returned[1].call = "Detect" /\ config.RequireConsistency
     /\ Len(batch) >= MinDetectFrames /\ ~returned[1].result.IsLive) =>
        LET r == returned[1].result
            n == ReasonCheck(r.Reason)
        IN  n # "none" => n \in DOMAIN r.Checks /\ ~r.Checks[n]

\* FindBestMatch has answered for a gallery that is not empty
MatchReturned ==
    /\ returned # <<>>
    /\ returned[1].call = "FindBestMatch"
    /\ galleryArg # <<>>

\* the distance of the probe to the k-th gallery embedding (k from 1)
GalleryDist(k) == CompareFaces(probeArg, galleryArg[k])

\* C40: over a gallery that is not empty FindBestMatch returns the index and
\* the distance of a gallery embedding nearest to the probe, the lowest such
\* index on ties, and matched = true exactly when that distance is strictly
\* below the tolerance; a distance equal to the tolerance is no match.
C40_NearestLowestIndexStrictTolerance ==
    MatchReturned =>
        LET r == returned[1].result
        IN  /\ r.idx \in 0..(Len(galleryArg) - 1)
            /\ r.dist = GalleryDist(r.idx + 1)
            /\ \A k \in 1..Len(galleryArg) :
                   /\ GalleryDist(k) >= r.dist
                   /\ k < r.idx + 1 => GalleryDist(k) > r.dist
            /\ r.matched <=> r.dist < tolerance
            /\ r.dist = tolerance => ~r.matched

\* two gallery embeddings are nearest, at a distance equal to the tolerance,
\* and a farther one comes first: no match, index of the first of the two
C40_Witness ==
    /\ MatchReturned
    /\ tolerance > 0
    /\ returned[1].result.dist = tolerance
    /\ ~returned[1].result.matched
    /\ returned[1].result.idx = 1
    /\ Len(galleryArg) = 3
    /\ GalleryDist(3) = GalleryDist(2)

(***************************************************************************)
(* Termination of the worker-pool pipeline                                 *)
(***************************************************************************)
\* the capture goroutine is at a send
CaptureSends == mainPc # "start" /\ captureI < captureCount
                /\ captureI % processInterval = 0

\* a sender never finds its channel full
SendsNeverBlock ==
    /\ CaptureSends => Len(rawFramesChan) < processCount
    /\ \A w \in Workers :
          workerPc[w] = "process" => Len(resultsChan) < processCount
    /\ Cardinality(queued) <= processCount

\* rawFramesChan is closed by the one step that follows the last capture,
\* stays closed, and nothing is sent on it afterwards
ClosedOnceAfterLastCapture ==
    /\ (~rawClosed /\ rawClosed') => captureI = captureCount /\ captureI' = captureI
    /\ rawClosed => rawClosed' /\ Len(rawFramesChan') <= Len(rawFramesChan)

\* the capture goroutine, every worker, the closer and the collector are done
PipelineDone ==
    /\ captureI = captureCount /\ rawClosed
    /\ \A w \in Workers : workerPc[w] = "exited"
    /\ wg = 0 /\ resultsClosed
    /\ rawFramesChan = <<>> /\ resultsChan = <<>>
    /\ mainPc = "done"

\* C35: whatever the interleaving, the capture goroutine, every worker, the
\* closer and the collector terminate: no send on rawFramesChan or
\* resultsChan finds the channel full, rawFramesChan is closed exactly once,
\* after the last capture, and wg.Wait() returns.
C35_PipelineTerminates ==
    /\ []SendsNeverBlock
    /\ [][ClosedOnceAfterLastCapture]_vars
    /\ <>[]PipelineDone

\* the pipeline has run to its end with every queued frame sent and received
C35_Witness ==
    /\ PipelineDone
    /\ Cardinality(queued) = processCount
    /\ Len(arrived) >= 2

(***************************************************************************)
(* Properties of the camera's streaming calls                              *)
(***************************************************************************)
\* C32: over any sequence of StartStreaming, StopStreaming and ReadFrame
\* calls, StartStreaming on a camera that is not open fails with
\* ErrCameraNotOpen and leaves it not streaming; StartStreaming while
\* streaming and StopStreaming while not streaming return nil and change
\* nothing; ReadFrame while not streaming goes through Capture.
C32_StreamingCalls ==
    \A i \in 1..Len(returned) :
        LET e == returned[i]
        IN  /\ (e.call = "StartStreaming" /\ ~isOpen) =>
                  e.result = "ErrCameraNotOpen" /\ ~e.now
            /\ (e.call = "StartStreaming" /\ e.was) =>
                  e.result = "nil" /\ e.now
            /\ (e.call = "StopStreaming" /\ ~e.was) =>
                  e.result = "nil" /\ ~e.now
            /\ (e.call = "ReadFrame" /\ ~e.was) =>
                  e.via = "Capture" /\ ~e.now

\* a refused start on a closed camera, then a read that falls back to Capture
C32_Witness ==
    /\ ~isOpen
    /\ Len(returned) = 3
    /\ returned[1].call = "StartStreaming" /\ returned[1].result = "ErrCameraNotOpen"
    /\ returned[2].call = "StopStreaming" /\ ~returned[2].was
    /\ returned[3].call = "ReadFrame" /\ returned[3].via = "Capture"

(***************************************************************************)
(* Properties of the PAM entry point                                       *)
(***************************************************************************)
\* the exit status main has left, and the AuthResult it was computed from
Exited == returned # <<>> /\ returned[1].call = "main"

\* C31: the PAM entry point exits with status 0 if and only if the
\* AuthResult has Success = true; every other result yields a non-zero
\* status: 2 for NotEnrolled, Timeout and NoFace, 3 for CameraError, 1 for
\* LivenessFailed, NotRecognized and any other error.
C31_ExitStatusFromResult ==
    Exited =>
        LET r == result[1]
            status == returned[1].result
        IN  /\ status = 0 <=> r.Success
            /\ ~r.Success =>
                  /\ status = 2 <=> r.Code \in {ErrCodeNotEnrolled, ErrCodeTimeout,
                                                ErrCodeNoFace}
                  /\ status = 3 <=> r.Code = ErrCodeCamera
                  /\ status \in {1, 2, 3}

\* a successful result still carrying a typed error exits 0
C31_Witness ==
    /\ Exited
    /\ result[1].Success
    /\ result[1].Code = ErrCodeLiveness
    /\ returned[1].result = 0

\* every frame list captureFramesForLiveness builds is in capture order (the
\* loop is sequential: there are no workers on this path)
FramesInCaptureOrder ==
    \A c \in Callers :
        \A i \in 1..(Len(frames[c]) - 1) : frames[c][i].idx < frames[c][i + 1].idx

(***************************************************************************)
(* Properties of the cmdTest pipeline                                      *)
(***************************************************************************)
\* the capture indices of a slice of frames, in slice order
Sources(fs) == [i \in 1..Len(fs) |-> fs[i].src]

StrictlyIncreasing(s) == \A i \in 1..(Len(s) - 1) : s[i] < s[i + 1]

\* the frames queued for extraction that were read without error
queuedOk == {q.index : q \in {j \in queued : ~j.err}}

\* C8: whatever the interleaving of the capture goroutine and the workers, the
\* frames built after the sort, and every slice handed to detector.Detect, are
\* in strictly increasing capture-index order.
C8_DetectSeesCaptureOrder ==
    /\ mainPc \in {"check", "done"} => StrictlyIncreasing(Sources(testFrames))
    /\ \A k \in 1..Len(detectInput) : StrictlyIncreasing(Sources(detectInput[k]))

\* Detect was called on three frames whose results had arrived out of order
C8_Witness ==
    /\ mainPc = "done"
    /\ Len(detectInput) = 1
    /\ Len(detectInput[1]) = 3
    /\ ~StrictlyIncreasing(arrived)

\* C9: the sort starts only when every worker has exited; at that moment the
\* collected results hold exactly one entry for each frame queued without error;
\* and resultsChan is closed only once every worker has exited.
C9_SortAfterAllWorkers ==
    /\ mainPc \in {"sort", "check", "done"} =>
          /\ \A w \in Workers : workerPc[w] = "exited"
          /\ rawClosed /\ rawFramesChan = <<>> /\ resultsChan = <<>>
    /\ mainPc = "sort" =>
          /\ Len(processedResults) = Cardinality(queuedOk)
          /\ {processedResults[i].index : i \in 1..Len(processedResults)} = queuedOk
    /\ resultsClosed => \A w \in Workers : workerPc[w] = "exited"

\* the sort is about to start on two results, one queued frame had failed
C9_Witness ==
    /\ mainPc = "sort"
    /\ Cardinality(queuedOk) = 2
    /\ \E j \in queued : j.err

(***************************************************************************)
(* Properties of the gallery store                                         *)
(***************************************************************************)
\* C10: no LoadUser reads a file that is being written, and once no operation
\* is in flight every embedding whose AddEmbedding returned nil is in the
\* stored record.
C10_WritesSerialized ==
    /\ ~partialRead
    /\ (\A p \in Procs : storePc[p] = "idle") => added \subseteq Elems(file.Embeddings)

====
